---------------------------- MODULE Spec2Model ----------------------------
(***************************************************************************)
(* The compiler middle-end of jaclang: the symbol table tree build pass    *)
(* (SymTabBuildPass) followed by the definition/use pass (DefUsePass) and  *)
(* the source formatter (JacFormatPass), run over a parsed syntax tree.    *)
(* SymbolTable, the AST node classes and the Pass traversal driver are     *)
(* modelled from the specification; the node handlers are modelled from    *)
(* the pass sources.                                                       *)
(***************************************************************************)
EXTENDS Integers, Sequences, FiniteSets, TLC

VARIABLES
    tree,         \* which input tree is being compiled (index into Trees)
    ir,           \* Pass.ir: the tree being compiled, a sequence of nodes
    pass,         \* "symtab" | "between" | "defuse" | "done" | "format" |
                  \* "formatted" | "crashed" | "aborted"
    start,        \* the node the running traversal was started at
    cur,          \* Pass.cur_node
    phase,        \* "enter" | "exit": the handler that runs next for cur
    cur_sym_tab,  \* SymTabBuildPass.cur_sym_tab, the stack of open scopes
    scopes,       \* every SymbolTable created: [name, owner, parent, inherit]
    syms,         \* every Symbol created: [name, tab, defn, uses, label]
    sym_tab,      \* node.sym_tab: node -> scope id, 0 when none is attached
    sym,          \* node.sym: node -> symbol id, 0 when unresolved
    errors,       \* Pass.errors_had, the collected diagnostics
    from_walker,  \* the nodes whose from_walker flag is set
    del_ctx,      \* the nodes whose name_spec.py_ctx_func is ast3.Del
    gen,          \* node.gen.jac: node -> generated text, a sequence of atoms
    indent_level, \* JacFormatPass.indent_level
    comments,     \* JacFormatPass.comments: the comment tokens of the source
    subruns,      \* number of scope-build runs started at an inner node
    pre,          \* history: the scope stack just before a node's enter handler
    parsed_from,  \* history: the formatter output the tree was parsed from
    last          \* history: <<pass, handler, node>> of the handler that ran last

VARIABLES
    policy,          \* ActionsOptimizer.policy
    policy_state,    \* ActionsOptimizer.policy_state[policy]
    actions_state,   \* ActionsState.state: name -> [mode, module, url, status]
    actions_change,  \* ActionsOptimizer.actions_change: <<name, change>> items
    actions_calls,   \* the keys of ActionsOptimizer.actions_calls
    actions_history, \* ActionsOptimizer.actions_history: [active]
    benchmark,       \* ActionsOptimizer.benchmark: [active, requests]
    live_actions,    \* name -> [module, remote]: what is loaded in the process
    kube,            \* name -> "absent" | "starting" | "up": its remote service
    modules,         \* name -> whether its module can be imported
    returned,        \* history: the method called last, with what it returned
    applied          \* history: what the last apply_actions_change was given

compiler == <<tree, ir, pass, start, cur, phase, cur_sym_tab, scopes, syms,
              sym_tab, sym, errors, from_walker, del_ctx, gen, indent_level,
              comments, subruns, pre, parsed_from, last>>

optimizer == <<policy, policy_state, actions_state, actions_change,
               actions_calls, actions_history, benchmark, live_actions, kube,
               modules, returned, applied>>

vars == <<compiler, optimizer>>

\* How many scope-build runs over a subtree may follow the run over the module.
MaxSubRuns == 1

-----------------------------------------------------------------------------
(* The input trees.  A node is [k: kind, p: parent, nm: sym_name (the       *)
(* value of a token), r: role (the name of a token), x: link, l1 and l2:    *)
(* loc.first_line and loc.last_line];                                       *)
(* nodes are numbered in source (pre-)order, so a node's kids are the nodes *)
(* naming it as parent, in increasing order.                                *)

N(k, p, nm, r) ==
    [k |-> k, p |-> p, nm |-> nm, r |-> r, x |-> 0, l1 |-> 0, l2 |-> 0]

\* A node with a link to another node (an implementation to its declaration).
NX(k, p, nm, r, x) ==
    [k |-> k, p |-> p, nm |-> nm, r |-> r, x |-> x, l1 |-> 0, l2 |-> 0]

\* A node with its source lines, of a tree written out with its terminals.
NL(k, p, nm, r, l1, l2) ==
    [k |-> k, p |-> p, nm |-> nm, r |-> r, x |-> 0, l1 |-> l1, l2 |-> l2]

\* glob x = 1;
\* obj A { has v;
\*   can foo(a = x, x) { x; z; z = x; self.v = z; z.w; z = 1; } }
\* can helper(q);
TreeShadow ==
    << N("Module", 0, "m", ""),
       N("GlobalVars", 1, "", ""),
       N("Assignment", 2, "", ""),
       N("SubNodeList", 3, "", "target"),
       N("Name", 4, "x", ""),
       N("Int", 3, "int", "value"),
       N("Architype", 1, "A", "obj"),
       N("Name", 7, "A", "name"),
       N("SubNodeList", 7, "", "body"),
       N("ArchHas", 9, "", ""),
       N("SubNodeList", 10, "", "vars"),
       N("HasVar", 11, "v", ""),
       N("Name", 12, "v", "name"),
       N("Ability", 9, "foo", ""),
       N("Name", 14, "foo", "name"),
       N("FuncSignature", 14, "", ""),
       N("SubNodeList", 16, "", "params"),
       N("ParamVar", 17, "a", ""),
       N("Name", 18, "a", "name"),
       N("Name", 18, "x", "value"),
       N("ParamVar", 17, "x", ""),
       N("Name", 21, "x", "name"),
       N("SubNodeList", 14, "", "body"),
       N("ExprStmt", 23, "", ""),
       N("Name", 24, "x", ""),
       N("ExprStmt", 23, "", ""),
       N("Name", 26, "z", ""),
       N("Assignment", 23, "", ""),
       N("SubNodeList", 28, "", "target"),
       N("Name", 29, "z", ""),
       N("Name", 28, "x", "value"),
       N("Assignment", 23, "", ""),
       N("SubNodeList", 32, "", "target"),
       N("AtomTrailer", 33, "", ""),
       N("Name", 34, "self", ""),
       N("Name", 34, "v", ""),
       N("Name", 32, "z", "value"),
       N("ExprStmt", 23, "", ""),
       N("AtomTrailer", 38, "", ""),
       N("Name", 39, "z", ""),
       N("Name", 39, "w", ""),
       N("Assignment", 23, "", ""),
       N("SubNodeList", 42, "", "target"),
       N("Name", 43, "z", ""),
       N("Int", 42, "int", "value"),
       N("Ability", 1, "helper", ""),
       N("Name", 46, "helper", "name"),
       N("FuncSignature", 46, "", ""),
       N("SubNodeList", 48, "", "params"),
       N("ParamVar", 49, "q", ""),
       N("Name", 50, "q", "name") >>

\* obj A { has f; can foo; can h; }
\* obj C { can foo; can h; can bar; }
\* obj B :A, C: { can foo; has f; }
\* enum E;   can fn(p);   :obj:A:can:foo { f; }
TreeInherit ==
    << N("Module", 0, "m", ""),
       N("Architype", 1, "A", "obj"),
       N("Name", 2, "A", "name"),
       N("SubNodeList", 2, "", "body"),
       N("ArchHas", 4, "", ""),
       N("SubNodeList", 5, "", "vars"),
       N("HasVar", 6, "f", ""),
       N("Name", 7, "f", "name"),
       N("Ability", 4, "foo", ""),
       N("Name", 9, "foo", "name"),
       N("Ability", 4, "h", ""),
       N("Name", 11, "h", "name"),
       N("Architype", 1, "C", "obj"),
       N("Name", 13, "C", "name"),
       N("SubNodeList", 13, "", "body"),
       N("Ability", 15, "foo", ""),
       N("Name", 16, "foo", "name"),
       N("Ability", 15, "h", ""),
       N("Name", 18, "h", "name"),
       N("Ability", 15, "bar", ""),
       N("Name", 20, "bar", "name"),
       N("Architype", 1, "B", "obj"),
       N("Name", 22, "B", "name"),
       N("SubNodeList", 22, "", "bases"),
       N("Name", 24, "A", ""),
       N("Name", 24, "C", ""),
       N("SubNodeList", 22, "", "body"),
       N("Ability", 27, "foo", ""),
       N("Name", 28, "foo", "name"),
       N("ArchHas", 27, "", ""),
       N("SubNodeList", 30, "", "vars"),
       N("HasVar", 31, "f", ""),
       N("Name", 32, "f", "name"),
       N("Enum", 1, "E", ""),
       N("Name", 34, "E", "name"),
       N("Ability", 1, "fn", ""),
       N("Name", 36, "fn", "name"),
       N("FuncSignature", 36, "", ""),
       N("SubNodeList", 38, "", "params"),
       N("ParamVar", 39, "p", ""),
       N("Name", 40, "p", "name"),
       NX("AbilityDef", 1, "A.foo", "", 9),
       N("SubNodeList", 42, "", "body"),
       N("ExprStmt", 43, "", ""),
       N("Name", 44, "f", "") >>

\* include:jac sub;          (sub is:  glob g = ...;)
\* with entry {
\*   if g { } else { }
\*   with open as fh { }
\*   -> T { }
\*   [i for i in l];
\*   {k ...};
\* }
\* obj D { }   can D;
TreeBlocks ==
    << N("Module", 0, "m", ""),
       N("Import", 1, "", "absorb"),
       N("SubNodeList", 2, "", "items"),
       N("ModulePath", 3, "sub", ""),
       N("Name", 4, "sub", "path"),
       N("Module", 4, "sub", "sub_module"),
       N("GlobalVars", 6, "", ""),
       N("Assignment", 7, "", ""),
       N("SubNodeList", 8, "", "target"),
       N("Name", 9, "g", ""),
       N("ModuleCode", 1, "", ""),
       N("SubNodeList", 11, "", "body"),
       N("IfStmt", 12, "", ""),
       N("Name", 13, "g", ""),
       N("ElseStmt", 13, "", ""),
       N("WithStmt", 12, "", ""),
       N("SubNodeList", 16, "", "exprs"),
       N("ExprAsItem", 17, "", ""),
       N("Name", 18, "open", "expr"),
       N("Name", 18, "fh", "alias"),
       N("TypedCtxBlock", 12, "", ""),
       N("ExprStmt", 12, "", ""),
       N("ListCompr", 22, "", ""),
       N("Name", 23, "i", ""),
       N("InnerCompr", 23, "", ""),
       N("Name", 25, "i", "target"),
       N("Name", 25, "l", ""),
       N("ExprStmt", 12, "", ""),
       N("DictCompr", 28, "", ""),
       N("Name", 29, "k", ""),
       N("Architype", 1, "D", "obj"),
       N("Name", 31, "D", "name"),
       N("Ability", 1, "D", ""),
       N("Name", 33, "D", "name") >>

\* with entry { g; second; w; w = 1; w; }
\* can second;
\* glob g = 1;
TreeHoist ==
    << N("Module", 0, "m", ""),
       N("ModuleCode", 1, "", ""),
       N("SubNodeList", 2, "", "body"),
       N("ExprStmt", 3, "", ""),
       N("Name", 4, "g", ""),
       N("ExprStmt", 3, "", ""),
       N("Name", 6, "second", ""),
       N("ExprStmt", 3, "", ""),
       N("Name", 8, "w", ""),
       N("Assignment", 3, "", ""),
       N("SubNodeList", 10, "", "target"),
       N("Name", 11, "w", ""),
       N("Int", 10, "int", "value"),
       N("ExprStmt", 3, "", ""),
       N("Name", 14, "w", ""),
       N("Ability", 1, "second", ""),
       N("Name", 16, "second", "name"),
       N("GlobalVars", 1, "", ""),
       N("Assignment", 18, "", ""),
       N("SubNodeList", 19, "", "target"),
       N("Name", 20, "g", ""),
       N("Int", 19, "int", "value") >>

\* import:py os as o;   include:py pylib;   include:jac missing;
\* test t { assertEqual; }
\* with entry {
\*   assertTrue;
\*   f() = c = g() = 1;
\*   for i in l { }   for f() in l { }
\*   [j for f() in l];
\*   with open as f() { }
\*   try { } except E as e { e; }
\*   del c;  del c.d;  del (c, i);  del f();
\* }
\* include:jac sub;          (sub is:  glob gs = ...;)
TreeForms ==
    << N("Module", 0, "m", ""),
       N("Import", 1, "", "import"),
       N("SubNodeList", 2, "", "items"),
       N("ModulePath", 3, "os", ""),
       N("Name", 4, "os", "path"),
       N("Name", 4, "o", "alias"),
       N("Import", 1, "", "absorb_py"),
       N("SubNodeList", 7, "", "items"),
       N("ModulePath", 8, "pylib", ""),
       N("Name", 9, "pylib", "path"),
       N("Import", 1, "", "absorb"),
       N("SubNodeList", 11, "", "items"),
       N("ModulePath", 12, "missing", ""),
       N("Name", 13, "missing", "path"),
       N("Test", 1, "t", ""),
       N("Name", 15, "t", "name"),
       N("SubNodeList", 15, "", "body"),
       N("ExprStmt", 17, "", ""),
       N("Name", 18, "assertEqual", ""),
       N("ModuleCode", 1, "", ""),
       N("SubNodeList", 20, "", "body"),
       N("ExprStmt", 21, "", ""),
       N("Name", 22, "assertTrue", ""),
       N("Assignment", 21, "", ""),
       N("SubNodeList", 24, "", "target"),
       N("FuncCall", 25, "", ""),
       N("Name", 26, "f", ""),
       N("Name", 25, "c", ""),
       N("FuncCall", 25, "", ""),
       N("Name", 29, "g", ""),
       N("Int", 24, "int", "value"),
       N("InForStmt", 21, "", ""),
       N("Name", 32, "i", "target"),
       N("Name", 32, "l", "collection"),
       N("InForStmt", 21, "", ""),
       N("FuncCall", 35, "", "target"),
       N("Name", 36, "f", ""),
       N("ExprStmt", 21, "", ""),
       N("ListCompr", 38, "", ""),
       N("InnerCompr", 39, "", ""),
       N("FuncCall", 40, "", "target"),
       N("WithStmt", 21, "", ""),
       N("SubNodeList", 42, "", "exprs"),
       N("ExprAsItem", 43, "", ""),
       N("Name", 44, "open", "expr"),
       N("FuncCall", 44, "", "alias"),
       N("TryStmt", 21, "", ""),
       N("Except", 47, "", ""),
       N("Name", 48, "E", "ex_type"),
       N("Name", 48, "e", "name"),
       N("SubNodeList", 48, "", "body"),
       N("ExprStmt", 51, "", ""),
       N("Name", 52, "e", ""),
       N("DeleteStmt", 21, "", ""),
       N("Name", 54, "c", "target"),
       N("DeleteStmt", 21, "", ""),
       N("AtomTrailer", 56, "", "target"),
       N("Name", 57, "c", ""),
       N("Name", 57, "d", ""),
       N("DeleteStmt", 21, "", ""),
       N("TupleVal", 60, "", "target"),
       N("SubNodeList", 61, "", "values"),
       N("Name", 62, "c", ""),
       N("Name", 62, "i", ""),
       N("DeleteStmt", 21, "", ""),
       N("FuncCall", 65, "", "target"),
       N("Import", 1, "", "absorb"),
       N("SubNodeList", 67, "", "items"),
       N("ModulePath", 68, "sub", ""),
       N("Name", 69, "sub", "path"),
       N("Module", 69, "sub", "sub_module"),
       N("GlobalVars", 71, "", ""),
       N("Assignment", 72, "", ""),
       N("SubNodeList", 73, "", "target"),
       N("Name", 74, "gs", "") >>

\* walker W { can go { visit -->; disengage; }  can later;
\*            obj Inner { can k { ignore; } } }
\* :walker:W:can:later { ignore -->; }
\* obj O { can f { visit; }  can g; }
\* :obj:O:can:g { disengage; }
\* with entry { visit; -->; }
TreeWalker ==
    << N("Module", 0, "m", ""),
       N("Architype", 1, "W", "walker"),
       N("Name", 2, "W", "name"),
       N("SubNodeList", 2, "", "body"),
       N("Ability", 4, "go", ""),
       N("Name", 5, "go", "name"),
       N("SubNodeList", 5, "", "body"),
       N("VisitStmt", 7, "", ""),
       N("EdgeOpRef", 8, "", ""),
       N("DisengageStmt", 7, "", ""),
       N("Ability", 4, "later", ""),
       N("Name", 11, "later", "name"),
       N("Architype", 4, "Inner", "obj"),
       N("Name", 13, "Inner", "name"),
       N("SubNodeList", 13, "", "body"),
       N("Ability", 15, "k", ""),
       N("Name", 16, "k", "name"),
       N("SubNodeList", 16, "", "body"),
       N("IgnoreStmt", 18, "", ""),
       NX("AbilityDef", 1, "W.later", "", 11),
       N("SubNodeList", 20, "", "body"),
       N("IgnoreStmt", 21, "", ""),
       N("EdgeOpRef", 22, "", ""),
       N("Architype", 1, "O", "obj"),
       N("Name", 24, "O", "name"),
       N("SubNodeList", 24, "", "body"),
       N("Ability", 26, "f", ""),
       N("Name", 27, "f", "name"),
       N("SubNodeList", 27, "", "body"),
       N("VisitStmt", 29, "", ""),
       N("Ability", 26, "g", ""),
       N("Name", 31, "g", "name"),
       NX("AbilityDef", 1, "O.g", "", 31),
       N("SubNodeList", 33, "", "body"),
       N("DisengageStmt", 34, "", ""),
       N("ModuleCode", 1, "", ""),
       N("SubNodeList", 36, "", "body"),
       N("VisitStmt", 37, "", ""),
       N("ExprStmt", 37, "", ""),
       N("EdgeOpRef", 39, "", "") >>

\* glob f() = 1, late = 2;
\* obj A { stray;  can after; }       (a field that is under no has statement)
\* with entry { late; A.after; }
TreeIce ==
    << N("Module", 0, "m", ""),
       N("GlobalVars", 1, "", ""),
       N("Assignment", 2, "", ""),
       N("SubNodeList", 3, "", "target"),
       N("FuncCall", 4, "", ""),
       N("Int", 3, "int", "value"),
       N("Assignment", 2, "", ""),
       N("SubNodeList", 7, "", "target"),
       N("Name", 8, "late", ""),
       N("Int", 7, "int", "value"),
       N("Architype", 1, "A", "obj"),
       N("Name", 11, "A", "name"),
       N("SubNodeList", 11, "", "body"),
       N("HasVar", 13, "stray", ""),
       N("Name", 14, "stray", "name"),
       N("Ability", 13, "after", ""),
       N("Name", 16, "after", "name"),
       N("ModuleCode", 1, "", ""),
       N("SubNodeList", 18, "", "body"),
       N("ExprStmt", 19, "", ""),
       N("Name", 20, "late", ""),
       N("ExprStmt", 19, "", ""),
       N("AtomTrailer", 22, "", ""),
       N("Name", 23, "A", ""),
       N("Name", 23, "after", "") >>

\* A module written out with its terminals and its source lines:
\*  1  with entry {
\*  2      a + b;
\*  3      a @ b; # n
\*  4
\*  5      # own
\*  6      x
\*  7      # mid
\*  8      ;
\*  9      -> T { y; }
\* 10  }
\* 11  ::py:: p ::py::
\* A token's nm is its value and its r is its name; a comment's r tells
\* whether it is_inline.
TreeFormat == <<
    NL("Module", 0, "m", "", 1, 11),                   \* 1
    NL("ModuleCode", 1, "", "", 1, 10),                \* 2
    NL("Token", 2, "with", "KW_WITH", 1, 1),           \* 3
    NL("Token", 2, "entry", "KW_ENTRY", 1, 1),         \* 4
    NL("SubNodeList", 2, "", "body", 1, 10),           \* 5
    NL("Token", 5, "{", "LBRACE", 1, 1),               \* 6
    NL("ExprStmt", 5, "", "", 2, 2),                   \* 7
    NL("BinaryExpr", 7, "", "", 2, 2),                 \* 8
    NL("Name", 8, "a", "", 2, 2),                      \* 9
    NL("Token", 8, "+", "PLUS", 2, 2),                 \* 10
    NL("Name", 8, "b", "", 2, 2),                      \* 11
    NL("Semi", 7, ";", "SEMI", 2, 2),                  \* 12
    NL("ExprStmt", 5, "", "", 3, 3),                   \* 13
    NL("BinaryExpr", 13, "", "", 3, 3),                \* 14
    NL("Name", 14, "a", "", 3, 3),                     \* 15
    NL("Token", 14, "@", "DECOR_OP", 3, 3),            \* 16
    NL("Name", 14, "b", "", 3, 3),                     \* 17
    NL("Semi", 13, ";", "SEMI", 3, 3),                 \* 18
    NL("CommentToken", 5, "# n", "inline", 3, 3),      \* 19
    NL("CommentToken", 5, "# own", "own_line", 5, 5),  \* 20
    NL("ExprStmt", 5, "", "", 6, 8),                   \* 21
    NL("Name", 21, "x", "", 6, 6),                     \* 22
    NL("CommentToken", 21, "# mid", "own_line", 7, 7), \* 23
    NL("Semi", 21, ";", "SEMI", 8, 8),                 \* 24
    NL("TypedCtxBlock", 5, "", "", 9, 9),              \* 25
    NL("Token", 25, "->", "RETURN_HINT", 9, 9),        \* 26
    NL("Name", 25, "T", "", 9, 9),                     \* 27
    NL("SubNodeList", 25, "", "body", 9, 9),           \* 28
    NL("Token", 28, "{", "LBRACE", 9, 9),              \* 29
    NL("ExprStmt", 28, "", "", 9, 9),                  \* 30
    NL("Name", 30, "y", "", 9, 9),                     \* 31
    NL("Semi", 30, ";", "SEMI", 9, 9),                 \* 32
    NL("Token", 28, "}", "RBRACE", 9, 9),              \* 33
    NL("Token", 5, "}", "RBRACE", 10, 10),             \* 34
    NL("PyInlineCode", 1, "", "", 11, 11),             \* 35
    NL("Token", 35, "p", "PYNLINE", 11, 11) >>         \* 36

\* obj A { can m; }
\* with entry { A.m.p; }
TreeChain ==
    << N("Module", 0, "m", ""),
       N("Architype", 1, "A", "obj"),
       N("Name", 2, "A", "name"),
       N("SubNodeList", 2, "", "body"),
       N("Ability", 4, "m", ""),
       N("Name", 5, "m", "name"),
       N("ModuleCode", 1, "", ""),
       N("SubNodeList", 7, "", "body"),
       N("ExprStmt", 8, "", ""),
       N("AtomTrailer", 9, "", ""),
       N("AtomTrailer", 10, "", ""),
       N("Name", 11, "A", ""),
       N("Name", 11, "m", ""),
       N("Name", 10, "p", "") >>

\* Four type declarations, written out with their terminals and lines:
\*  1  obj A;
\*  2  # about B      (fused into A, after its semicolon)
\*  6  obj B;
\* 10  obj C;
\* 12  obj D;
TreeDecls == <<
    NL("Module", 0, "m", "", 1, 12),                      \* 1
    NL("Architype", 1, "A", "obj", 1, 2),                 \* 2
    NL("Token", 2, "obj", "KW_OBJECT", 1, 1),             \* 3
    NL("Name", 2, "A", "name", 1, 1),                     \* 4
    NL("Semi", 2, ";", "SEMI", 1, 1),                     \* 5
    NL("CommentToken", 2, "# about B", "own_line", 2, 2), \* 6
    NL("Architype", 1, "B", "obj", 6, 6),                 \* 7
    NL("Token", 7, "obj", "KW_OBJECT", 6, 6),             \* 8
    NL("Name", 7, "B", "name", 6, 6),                     \* 9
    NL("Semi", 7, ";", "SEMI", 6, 6),                     \* 10
    NL("Architype", 1, "C", "obj", 10, 10),               \* 11
    NL("Token", 11, "obj", "KW_OBJECT", 10, 10),          \* 12
    NL("Name", 11, "C", "name", 10, 10),                  \* 13
    NL("Semi", 11, ";", "SEMI", 10, 10),                  \* 14
    NL("Architype", 1, "D", "obj", 12, 12),               \* 15
    NL("Token", 15, "obj", "KW_OBJECT", 12, 12),          \* 16
    NL("Name", 15, "D", "name", 12, 12),                  \* 17
    NL("Semi", 15, ";", "SEMI", 12, 12) >>                \* 18

\* Two declarations and a comment after the first one, as the parser gives
\* them for the comment two lines below, on the next line, and on the same
\* line as the semicolon before it:
\*   obj A;          obj A;          obj A; # c
\*                   # c             obj B;
\*   # c             obj B;
\*   obj B;
Decls(comment_line, role, b_line) == <<
    NL("Module", 0, "m", "", 1, b_line),                         \* 1
    NL("Architype", 1, "A", "obj", 1, comment_line),             \* 2
    NL("Token", 2, "obj", "KW_OBJECT", 1, 1),                    \* 3
    NL("Name", 2, "A", "name", 1, 1),                            \* 4
    NL("Semi", 2, ";", "SEMI", 1, 1),                            \* 5
    NL("CommentToken", 2, "# c", role, comment_line, comment_line), \* 6
    NL("Architype", 1, "B", "obj", b_line, b_line),              \* 7
    NL("Token", 7, "obj", "KW_OBJECT", b_line, b_line),          \* 8
    NL("Name", 7, "B", "name", b_line, b_line),                  \* 9
    NL("Semi", 7, ";", "SEMI", b_line, b_line) >>                \* 10

TreeGap == Decls(3, "own_line", 4)
TreeNear == Decls(2, "own_line", 3)
TreeInline == Decls(1, "inline", 2)

\* A block with a dict literal too long for a line that has a comment after
\* its opening brace, the same literal without the comment, and an empty block:
\*   with entry {
\*       {
\*           # c
\*           first_key_of_the_dict: first_value_of_the_dict,
\*           other_key_of_the_dict: other_value_of_the_dict
\*       };
\*       {
\*           first_key_of_the_dict: first_value_of_the_dict,
\*           other_key_of_the_dict: other_value_of_the_dict
\*       };
\*       -> T { }
\*   }
TreeDict == <<
    NL("Module", 0, "m", "", 1, 12),                              \* 1
    NL("ModuleCode", 1, "", "", 1, 12),                           \* 2
    NL("Token", 2, "with", "KW_WITH", 1, 1),                      \* 3
    NL("Token", 2, "entry", "KW_ENTRY", 1, 1),                    \* 4
    NL("SubNodeList", 2, "", "body", 1, 12),                      \* 5
    NL("Token", 5, "{", "LBRACE", 1, 1),                          \* 6
    NL("ExprStmt", 5, "", "", 2, 6),                              \* 7
    NL("DictVal", 7, "", "", 2, 6),                               \* 8
    NL("Token", 8, "{", "LBRACE", 2, 2),                          \* 9
    NL("CommentToken", 8, "# c", "own_line", 3, 3),               \* 10
    NL("KVPair", 8, "", "", 4, 4),                                \* 11
    NL("Name", 11, "first_key_of_the_dict", "", 4, 4),            \* 12
    NL("Token", 11, ":", "COLON", 4, 4),                          \* 13
    NL("Name", 11, "first_value_of_the_dict", "", 4, 4),          \* 14
    NL("Token", 8, ",", "COMMA", 4, 4),                           \* 15
    NL("KVPair", 8, "", "", 5, 5),                                \* 16
    NL("Name", 16, "other_key_of_the_dict", "", 5, 5),            \* 17
    NL("Token", 16, ":", "COLON", 5, 5),                          \* 18
    NL("Name", 16, "other_value_of_the_dict", "", 5, 5),          \* 19
    NL("Token", 8, "}", "RBRACE", 6, 6),                          \* 20
    NL("Semi", 7, ";", "SEMI", 6, 6),                             \* 21
    NL("ExprStmt", 5, "", "", 7, 10),                             \* 22
    NL("DictVal", 22, "", "", 7, 10),                             \* 23
    NL("Token", 23, "{", "LBRACE", 7, 7),                         \* 24
    NL("KVPair", 23, "", "", 8, 8),                               \* 25
    NL("Name", 25, "first_key_of_the_dict", "", 8, 8),            \* 26
    NL("Token", 25, ":", "COLON", 8, 8),                          \* 27
    NL("Name", 25, "first_value_of_the_dict", "", 8, 8),          \* 28
    NL("Token", 23, ",", "COMMA", 8, 8),                          \* 29
    NL("KVPair", 23, "", "", 9, 9),                               \* 30
    NL("Name", 30, "other_key_of_the_dict", "", 9, 9),            \* 31
    NL("Token", 30, ":", "COLON", 9, 9),                          \* 32
    NL("Name", 30, "other_value_of_the_dict", "", 9, 9),          \* 33
    NL("Token", 23, "}", "RBRACE", 10, 10),                       \* 34
    NL("Semi", 22, ";", "SEMI", 10, 10),                          \* 35
    NL("TypedCtxBlock", 5, "", "", 11, 11),                       \* 36
    NL("Token", 36, "->", "RETURN_HINT", 11, 11),                 \* 37
    NL("Name", 36, "T", "", 11, 11),                              \* 38
    NL("SubNodeList", 36, "", "body", 11, 11),                    \* 39
    NL("Token", 39, "{", "LBRACE", 11, 11),                       \* 40
    NL("Token", 39, "}", "RBRACE", 11, 11),                       \* 41
    NL("Token", 5, "}", "RBRACE", 12, 12) >>                      \* 42

Trees == << TreeShadow, TreeInherit, TreeBlocks, TreeHoist, TreeForms,
           TreeWalker, TreeIce, TreeFormat, TreeChain, TreeDecls,
           TreeGap, TreeNear, TreeInline, TreeDict >>

T == ir
Nodes == 1..Len(T)
Kind(n) == T[n].k
Parent(n) == T[n].p
Role(n) == T[n].r

\* AstNode.kid: the ordered children.
Kids(n) == {m \in Nodes : T[m].p = n}

\* The implicit names an ability's scope gets are stub Name nodes made by
\* Name.gen_stub_from_node; they are no part of the tree.
SelfStub(n) == 100 + n
SuperStub(n) == 200 + n

\* The names a test block gets: the attributes of unittest.TestCase() whose
\* name starts with "assert"; three of them stand for the whole fixed list.
AssertHelpers == << "assertEqual", "assertIn", "assertTrue" >>

\* The stub Name made for the k-th helper name of test block n.
HelperStub(n, k) == 1000 + 10 * n + k

Stubs ==
    {SelfStub(n) : n \in Nodes} \cup {SuperStub(n) : n \in Nodes}
    \cup {HelperStub(n, k) : n \in Nodes, k \in 1..Len(AssertHelpers)}
IsStub(d) == d > 100

\* AstSymbolNode.sym_name
SymName(d) ==
    IF d \in Nodes THEN T[d].nm
    ELSE IF d > 1000 THEN AssertHelpers[(d - 1000) % 10]
    ELSE IF d - 100 \in Nodes THEN "self" ELSE "super"

RECURSIVE InSubtree(_, _)
InSubtree(n, root) ==
    IF n = root THEN TRUE
    ELSE IF n = 0 THEN FALSE
    ELSE InSubtree(T[n].p, root)

Min(S) == CHOOSE x \in S : \A y \in S : x <= y
Max(S) == CHOOSE x \in S : \A y \in S : x >= y

\* Ability.is_method: the ability is a member of an architype's body.
is_method(n) ==
    /\ Parent(n) # 0
    /\ Kind(Parent(n)) = "SubNodeList"
    /\ Parent(Parent(n)) # 0
    /\ Kind(Parent(Parent(n))) = "Architype"

\* isinstance(x, ast.AstSymbolNode)
IsSymbolNode(n) == Kind(n) \in {"Name", "SpecialVarRef", "ArchRef"}

-----------------------------------------------------------------------------
(* The symbol table.  The operators below take and return a record h of the *)
(* variables the handlers write, so that one handler can apply several of   *)
(* them in a row.                                                           *)

Heap ==
    [scopes |-> scopes, syms |-> syms, sym_tab |-> sym_tab, sym |-> sym,
     errors |-> errors, from_walker |-> from_walker, del_ctx |-> del_ctx,
     gen |-> gen, indent_level |-> indent_level, comments |-> comments]

NoLabel == ""

\* SymbolTable(name, owner, parent): a new scope; its id is its position.
new_scope(h, name, owner, parent) ==
    [h EXCEPT !.scopes =
        Append(@, [name |-> name, owner |-> owner, parent |-> parent,
                   inherit |-> <<>>])]

\* The scope's own entry for a name: 0 when it has none.
own_entry(h, S, nm) ==
    LET hits == {i \in 1..Len(h.syms) :
                    h.syms[i].tab = S /\ h.syms[i].name = nm}
    IN  IF hits = {} THEN 0 ELSE Min(hits)

\* Symbol.decl: the canonical (first) declaration site.
decl(h, i) == h.syms[i].defn[1]

\* define(scope, name, declaring_node, access_spec?, is_redeclaration_label?):
\* a new name gets a new symbol; an existing name gets the node as one more
\* declaration site, unless the labelled redeclaration is of another kind than
\* the symbol's, which fails with DuplicateDefinition and leaves the symbol.
\* Variant: every define makes a fresh entry.
def_insert_fresh(h, S, d, label) ==
    [h EXCEPT
        !.syms = Append(@, [name |-> SymName(d), tab |-> S, defn |-> <<d>>,
                            uses |-> <<>>, label |-> label]),
        !.sym = [@ EXCEPT ![d] = Len(h.syms) + 1]]

def_insert(h, S, d, label) ==
    LET nm == SymName(d)
        i == own_entry(h, S, nm)
    IN  IF i = 0
        THEN [h EXCEPT
                !.syms = Append(@, [name |-> nm, tab |-> S, defn |-> <<d>>,
                                    uses |-> <<>>, label |-> label]),
                !.sym = [@ EXCEPT ![d] = Len(h.syms) + 1]]
        ELSE IF label # NoLabel /\ h.syms[i].label # label
        THEN [h EXCEPT !.errors = Append(@, "DuplicateDefinition")]
        ELSE [h EXCEPT
                !.syms = [@ EXCEPT ![i].defn = Append(@, d)],
                !.sym = [@ EXCEPT ![d] = i]]

\* Symbol.add_use: the node is one more use of the symbol, and links to it.
add_use(h, i, d) ==
    [h EXCEPT !.syms = [@ EXCEPT ![i].uses = Append(@, d)],
              !.sym = [@ EXCEPT ![d] = i]]

\* A scope's own names shadow the inherited ones; among the bases the earlier
\* one wins.  fuel bounds the walk through the inherit links.
RECURSIVE lookup_local(_, _, _, _)
RECURSIVE lookup_bases(_, _, _, _, _)
lookup_local(h, S, nm, fuel) ==
    LET i == own_entry(h, S, nm)
    IN  IF i # 0 THEN i
        ELSE IF fuel = 0 THEN 0
        ELSE lookup_bases(h, h.scopes[S].inherit, 1, nm, fuel - 1)
lookup_bases(h, bases, k, nm, fuel) ==
    IF k > Len(bases) THEN 0
    ELSE LET i == lookup_local(h, bases[k], nm, fuel)
         IN  IF i # 0 THEN i ELSE lookup_bases(h, bases, k + 1, nm, fuel)

\* lookup(scope, name): the scope, then each ancestor up to the root; the
\* first match wins; 0 is NotFound.
RECURSIVE lookup(_, _, _)
lookup(h, S, nm) ==
    IF S = 0 THEN 0
    ELSE LET i == lookup_local(h, S, nm, Len(h.scopes))
         IN  IF i # 0 THEN i ELSE lookup(h, h.scopes[S].parent, nm)

\* use_lookup(node): resolve the node's name from a scope and record the use.
use_lookup_in(h, d, S) ==
    LET i == lookup(h, S, SymName(d))
    IN  IF i = 0 THEN h ELSE add_use(h, i, d)

use_lookup(h, d) == use_lookup_in(h, d, h.sym_tab[d])

\* The scope a declaration exposes for member access: the scope the declaring
\* node introduced, or for the implicit self/super of a method the scope of
\* the type that owns the method; 0 when the declaration has no scope of its
\* own.
decl_scope(h, d) ==
    IF h.sym_tab[d] = 0 THEN 0
    ELSE IF IsStub(d) /\ d > 1000 THEN 0
    ELSE IF IsStub(d) THEN h.scopes[h.sym_tab[d]].parent
    ELSE IF h.scopes[h.sym_tab[d]].owner = d THEN h.sym_tab[d]
    ELSE 0

\* AtomTrailer.as_attr_list: the dotted chain a.b.c as the list of its names.
RECURSIVE as_attr_list(_)
as_attr_list(n) ==
    LET ks == Kids(n)
        target == Min(ks)
        right == Max(ks)
    IN  (IF Kind(target) = "AtomTrailer" THEN as_attr_list(target)
         ELSE <<target>>) \o <<right>>

\* The walk shared by chain_lookup and chain_define: resolve list[k..upto],
\* each inside the scope of the previous one's declaration.  The result is
\* <<heap, scope to resolve the next segment in>>; the scope is 0 once a
\* segment is not found or its declaration exposes no scope.
RECURSIVE chain_walk(_, _, _, _, _)
chain_walk(h, list, k, upto, S) ==
    IF k > upto \/ S = 0 THEN <<h, S>>
    ELSE LET i == lookup(h, S, SymName(list[k]))
         IN  IF i = 0 THEN <<h, 0>>
             ELSE chain_walk(add_use(h, i, list[k]), list, k + 1, upto,
                             decl_scope(h, decl(h, i)))

\* chain_lookup(scope, ordered_name_list)
chain_use_lookup(h, list) ==
    IF list = <<>> THEN h
    ELSE chain_walk(h, list, 1, Len(list), h.sym_tab[list[1]])[1]

\* chain_define(scope, ordered_name_list): the segments before the last are
\* uses; the last is defined in the scope the walk ends in.
chain_def_insert(h, list) ==
    IF list = <<>> THEN h
    ELSE LET w == chain_walk(h, list, 1, Len(list) - 1, h.sym_tab[list[1]])
         IN  IF w[2] = 0 THEN w[1]
             ELSE def_insert(w[1], w[2], list[Len(list)], NoLabel)

\* inherit_from(scope, base_type_scopes): link the base scopes for lookup.
inherit_sym_tab(h, S, B) ==
    [h EXCEPT !.scopes = [@ EXCEPT ![S].inherit = Append(@, B)]]

\* The base-class names of an architype or enum header, in order.
base_classes(n) ==
    LET lists == {l \in Kids(n) : Kind(l) = "SubNodeList" /\ Role(l) = "bases"}
        names == UNION {Kids(l) : l \in lists}
        RECURSIVE ordered(_)
        ordered(S) == IF S = {} THEN <<>>
                      ELSE <<Min(S)>> \o ordered(S \ {Min(S)})
    IN  ordered(names)

\* inherit_baseclasses_sym(node): each base that resolves to a declaration
\* with a scope is used and linked, in the order of the header.
RECURSIVE inherit_bases(_, _, _, _)
inherit_bases(h, S, bases, k) ==
    IF k > Len(bases) THEN h
    ELSE LET i == lookup(h, S, SymName(bases[k]))
             B == IF i = 0 THEN 0 ELSE decl_scope(h, decl(h, i))
             h1 == IF i = 0 THEN h ELSE add_use(h, i, bases[k])
             h2 == IF B = 0 THEN h1 ELSE inherit_sym_tab(h1, S, B)
         IN  inherit_bases(h2, S, bases, k + 1)

inherit_baseclasses_sym(h, n) ==
    inherit_bases(h, h.sym_tab[n], base_classes(n), 1)

-----------------------------------------------------------------------------
(* Pass: the traversal.  A node's enter handler runs, then its kids are     *)
(* traversed in order, then its exit handler runs.                          *)

FirstKid(n) == IF Kids(n) = {} THEN 0 ELSE Min(Kids(n))

NextSibling(n) ==
    LET later == {m \in Nodes : T[m].p = T[n].p /\ m > n}
    IN  IF later = {} THEN 0 ELSE Min(later)

\* The node and handler that follow node n's enter handler.
AfterEnter(n) ==
    IF FirstKid(n) # 0 THEN <<FirstKid(n), "enter">> ELSE <<n, "exit">>

\* The node and handler that follow node n's exit handler (n is not start).
AfterExit(n) ==
    IF NextSibling(n) # 0 THEN <<NextSibling(n), "enter">>
    ELSE <<Parent(n), "exit">>

-----------------------------------------------------------------------------
(* SymTabBuildPass.  A handler maps r = [h: heap, st: scope stack, ok] to   *)
(* the r it leaves; ok turns "crash" when Python raises (an empty stack is  *)
(* indexed or popped) and "ice" when the pass reports an internal error.    *)

R0 == [h |-> Heap, st |-> cur_sym_tab, ok |-> "ok"]

\* cur_scope
cur_scope(st) == st[Len(st)]

\* push_scope(name, key_node)
push_scope(r, name, key_node) ==
    LET inherit == Parent(key_node)
        id == Len(r.h.scopes) + 1
    IN  IF r.ok # "ok" THEN r
        ELSE IF r.st = <<>> /\ inherit = 0
        THEN [r EXCEPT !.h = new_scope(r.h, name, key_node, 0),
                       !.st = <<id>>]
        ELSE IF r.st = <<>> /\ r.h.sym_tab[inherit] = 0
        THEN [r EXCEPT !.ok = "crash"]
        ELSE IF r.st = <<>>
        THEN [r EXCEPT
                !.h = new_scope(r.h, name, key_node, r.h.sym_tab[inherit]),
                !.st = <<r.h.sym_tab[inherit], id>>]
        ELSE [r EXCEPT !.h = new_scope(r.h, name, key_node, cur_scope(r.st)),
                       !.st = Append(r.st, id)]

\* pop_scope()
pop_scope(r) ==
    IF r.ok # "ok" THEN r
    ELSE IF r.st = <<>> THEN [r EXCEPT !.ok = "crash"]
    ELSE [r EXCEPT !.st = SubSeq(r.st, 1, Len(r.st) - 1)]

\* sync_node_to_scope(node)
sync_node_to_scope(r, n) ==
    IF r.ok # "ok" THEN r
    ELSE IF r.st = <<>> THEN [r EXCEPT !.ok = "crash"]
    ELSE [r EXCEPT !.h.sym_tab[n] = cur_scope(r.st)]

\* node.sym_tab.def_insert(d, single_decl = label)
insert_at(r, n, d, label) ==
    IF r.ok # "ok" THEN r
    ELSE [r EXCEPT !.h = def_insert(r.h, r.h.sym_tab[n], d, label)]

\* Name.gen_stub_from_node(node, name): a stub in the node's scope.
gen_stub_from_node(r, n, stub) ==
    IF r.ok # "ok" THEN r
    ELSE [r EXCEPT !.h.sym_tab[stub] = r.h.sym_tab[n]]

\* raise self.ice(msg): the error is logged and the pass raises.
raise_ice(r) ==
    IF r.ok # "ok" THEN r
    ELSE [r EXCEPT !.h.errors = Append(@, "ICE"), !.ok = "ice"]

\* self.ice(msg) as a statement: the error is logged, and the exception ice
\* returns for the caller to raise is dropped, so the handler goes on.
ice(r) ==
    IF r.ok # "ok" THEN r
    ELSE [r EXCEPT !.h.errors = Append(@, "ICE")]

\* error(msg): the diagnostic is collected and the pass goes on.
error(r, msg) ==
    IF r.ok # "ok" THEN r
    ELSE [r EXCEPT !.h.errors = Append(@, msg)]

\* The kinds whose enter handler is push_scope(class name) then sync.
BlockKinds ==
    {"TypedCtxBlock", "IfStmt", "ElseIf", "ElseStmt", "TryStmt", "Except",
     "FinallyStmt", "IterForStmt", "InForStmt", "WhileStmt", "WithStmt",
     "LambdaExpr", "InnerCompr", "DictCompr", "MatchCase"}

\* The kinds whose enter handler defines the node's name, then opens a scope.
DeclKinds == {"Architype", "ArchDef", "Ability", "AbilityDef", "Enum", "EnumDef"}

\* Every kind whose enter handler calls push_scope.
ScopeIntroKinds == {"Module", "Test"} \cup DeclKinds \cup BlockKinds

\* The kinds with an exit handler of their own that is not pop_scope().
OtherExitKinds == {"GlobalVars", "Import", "ModulePath"}

st_enter_module(r, n) == sync_node_to_scope(push_scope(r, SymName(n), n), n)

\* Variant: the block opens a scope (the push the source has commented out).
st_enter_module_code_push(r, n) ==
    sync_node_to_scope(push_scope(r, "module_code", n), n)

st_enter_module_code(r, n) == sync_node_to_scope(r, n)

\* Variant: the handler does not attach the node.
st_enter_sync_missing(r, n) == r

st_enter_sync(r, n) == sync_node_to_scope(r, n)

st_enter_block(r, n) == sync_node_to_scope(push_scope(r, Kind(n), n), n)

st_enter_architype(r, n) ==
    LET r1 == sync_node_to_scope(r, n)
        r2 == insert_at(r1, n, n, "architype")
        r3 == push_scope(r2, SymName(n), n)
    IN  sync_node_to_scope(r3, n)

st_enter_enum(r, n) ==
    LET r1 == sync_node_to_scope(r, n)
        r2 == insert_at(r1, n, n, "enum")
        r3 == push_scope(r2, SymName(n), n)
    IN  sync_node_to_scope(r3, n)

\* Variant: the implicit names are generated for every ability.
st_enter_ability_always_self(r, n) ==
    LET r1 == sync_node_to_scope(r, n)
        r2 == insert_at(r1, n, n, "ability")
        r3 == push_scope(r2, SymName(n), n)
        r4 == sync_node_to_scope(r3, n)
        r5 == insert_at(gen_stub_from_node(r4, n, SelfStub(n)),
                        n, SelfStub(n), NoLabel)
    IN  insert_at(gen_stub_from_node(r5, n, SuperStub(n)),
                  n, SuperStub(n), NoLabel)

st_enter_ability(r, n) ==
    LET r1 == sync_node_to_scope(r, n)
        r2 == insert_at(r1, n, n, "ability")
        r3 == push_scope(r2, SymName(n), n)
        r4 == sync_node_to_scope(r3, n)
        r5 == insert_at(gen_stub_from_node(r4, n, SelfStub(n)),
                        n, SelfStub(n), NoLabel)
        r6 == insert_at(gen_stub_from_node(r5, n, SuperStub(n)),
                        n, SuperStub(n), NoLabel)
    IN  IF is_method(n) THEN r6 ELSE r4

\* Variant: the helper names are defined in the enclosing scope.
st_enter_test_outside(r, n) ==
    LET r1 == sync_node_to_scope(r, n)
        RECURSIVE helpers(_, _)
        helpers(q, k) ==
            IF k > Len(AssertHelpers) THEN q
            ELSE helpers(insert_at(gen_stub_from_node(q, n, HelperStub(n, k)),
                                   n, HelperStub(n, k), NoLabel), k + 1)
        r2 == helpers(r1, 1)
    IN  sync_node_to_scope(push_scope(r2, SymName(n), n), n)

st_enter_test(r, n) ==
    LET r1 == sync_node_to_scope(push_scope(r, SymName(n), n), n)
        RECURSIVE helpers(_, _)
        helpers(q, k) ==
            IF k > Len(AssertHelpers) THEN q
            ELSE helpers(insert_at(gen_stub_from_node(q, n, HelperStub(n, k)),
                                   n, HelperStub(n, k), NoLabel), k + 1)
    IN  helpers(r1, 1)

st_enter_ability_def(r, n) ==
    LET r1 == sync_node_to_scope(r, n)
        r2 == insert_at(r1, n, n, "ability def")
        r3 == push_scope(r2, SymName(n), n)
    IN  sync_node_to_scope(r3, n)

\* Variant: the exit handler leaves the scope on the stack.
st_exit_pop_missing(r, n) == r

st_exit_pop(r, n) == pop_scope(r)

\* get_all_sub_nodes(node, Assignment), each one's target.items, in order.
RECURSIVE seq_of(_)
seq_of(S) == IF S = {} THEN <<>> ELSE <<Min(S)>> \o seq_of(S \ {Min(S)})

global_targets(n) ==
    seq_of({m \in Nodes :
              /\ InSubtree(m, n)
              /\ Parent(m) # 0
              /\ Kind(Parent(m)) = "SubNodeList"
              /\ Role(Parent(m)) = "target"
              /\ Kind(Parent(Parent(m))) = "Assignment"})

RECURSIVE insert_globals(_, _, _)
insert_globals(r, ts, k) ==
    IF k > Len(ts) THEN r
    ELSE IF IsSymbolNode(ts[k])
    THEN insert_globals(insert_at(r, ts[k], ts[k], "global var"), ts, k + 1)
    ELSE insert_globals(ice(r), ts, k + 1)

\* Variant: the targets are left to the def/use pass.
st_exit_global_vars_deferred(r, n) == r

st_exit_global_vars(r, n) == insert_globals(r, global_targets(n), 1)

\* ModulePath.sub_module: the parsed module the path resolved to, 0 if none.
sub_module(n) ==
    LET ms == {m \in Kids(n) : Kind(m) = "Module"}
    IN  IF ms = {} THEN 0 ELSE Min(ms)

\* Import.items.items
import_items(n) ==
    seq_of(UNION {Kids(l) : l \in {l \in Kids(n) : Role(l) = "items"}})

RECURSIVE insert_items(_, _, _)
insert_items(r, items, k) ==
    IF k > Len(items) THEN r
    ELSE insert_items(insert_at(r, items[k], items[k], "import item"),
                      items, k + 1)

\* Variant: the absorbing import of a module of any language is resolved.
st_exit_import_any_lang(r, n) ==
    LET items == import_items(n)
        source == items[1]
    IN  IF Role(n) \notin {"absorb", "absorb_py"}
        THEN insert_items(r, items, 1)
        ELSE IF Kind(source) # "ModulePath" \/ sub_module(source) = 0
        THEN error(r, "ModuleNotFound")
        ELSE IF r.ok # "ok" THEN r
        ELSE [r EXCEPT !.h = inherit_sym_tab(r.h, r.h.sym_tab[n],
                                             r.h.sym_tab[sub_module(source)])]

\* Import.is_absorb / Import.is_jac: the role is "absorb" for include:jac and
\* "absorb_py" for the absorbing import of a module of another language.
st_exit_import(r, n) ==
    LET items == import_items(n)
        source == items[1]
        is_absorb == Role(n) \in {"absorb", "absorb_py"}
        is_jac == Role(n) # "absorb_py"
    IN  IF ~is_absorb THEN insert_items(r, items, 1)
        ELSE IF ~is_jac THEN r
        ELSE IF Kind(source) # "ModulePath" \/ sub_module(source) = 0
        THEN error(r, "ModuleNotFound")
        ELSE IF r.ok # "ok" THEN r
        ELSE [r EXCEPT !.h = inherit_sym_tab(r.h, r.h.sym_tab[n],
                                             r.h.sym_tab[sub_module(source)])]

st_exit_module_path(r, n) ==
    LET alias == {m \in Kids(n) : Role(m) = "alias"}
        path == {m \in Kids(n) : Role(m) = "path"}
    IN  IF alias # {}
        THEN insert_at(r, Min(alias), Min(alias), "import")
        ELSE IF path # {} /\ Kind(Min(path)) = "Name"
        THEN insert_at(r, Min(path), Min(path), NoLabel)
        ELSE r

\* What every handler step of the scope-build pass does around the handler:
\* the handler's effect is stored, and the traversal moves on or stops.
Commit(h) ==
    /\ scopes' = h.scopes
    /\ syms' = h.syms
    /\ sym_tab' = h.sym_tab
    /\ sym' = h.sym
    /\ errors' = h.errors
    /\ from_walker' = h.from_walker
    /\ del_ctx' = h.del_ctx
    /\ gen' = h.gen
    /\ indent_level' = h.indent_level
    /\ comments' = h.comments

Stopped(ok) == IF ok = "ice" THEN "aborted" ELSE "crashed"

SymTabEnter(r) ==
    /\ Commit(r.h)
    /\ cur_sym_tab' = r.st
    /\ pre' = [pre EXCEPT ![cur] = cur_sym_tab]
    /\ last' = <<pass, "enter", cur>>
    /\ IF r.ok = "ok"
       THEN /\ cur' = AfterEnter(cur)[1]
            /\ phase' = AfterEnter(cur)[2]
            /\ pass' = pass
       ELSE /\ pass' = Stopped(r.ok)
            /\ UNCHANGED <<cur, phase>>
    /\ UNCHANGED <<optimizer, parsed_from, tree, ir, start, subruns>>

SymTabExit(r) ==
    /\ Commit(r.h)
    /\ cur_sym_tab' = r.st
    /\ last' = <<pass, "exit", cur>>
    /\ IF r.ok # "ok"
       THEN /\ pass' = Stopped(r.ok)
            /\ UNCHANGED <<cur, phase>>
       ELSE IF cur = start
       THEN /\ pass' = "between"
            /\ UNCHANGED <<cur, phase>>
       ELSE /\ cur' = AfterExit(cur)[1]
            /\ phase' = AfterExit(cur)[2]
            /\ pass' = pass
    /\ UNCHANGED <<optimizer, parsed_from, tree, ir, start, subruns, pre>>

AtEnter(kinds) == pass = "symtab" /\ phase = "enter" /\ Kind(cur) \in kinds
AtExit(kinds) == pass = "symtab" /\ phase = "exit" /\ Kind(cur) \in kinds

SymTab_enter_module == AtEnter({"Module"}) /\ SymTabEnter(st_enter_module(R0, cur))

SymTab_enter_module_code ==
    AtEnter({"ModuleCode"}) /\ SymTabEnter(st_enter_module_code(R0, cur))

SymTab_enter_architype ==
    AtEnter({"Architype"}) /\ SymTabEnter(st_enter_architype(R0, cur))

SymTab_enter_enum == AtEnter({"Enum"}) /\ SymTabEnter(st_enter_enum(R0, cur))

SymTab_enter_ability ==
    AtEnter({"Ability"}) /\ SymTabEnter(st_enter_ability(R0, cur))

SymTab_enter_ability_def ==
    AtEnter({"AbilityDef"}) /\ SymTabEnter(st_enter_ability_def(R0, cur))

SymTab_enter_test == AtEnter({"Test"}) /\ SymTabEnter(st_enter_test(R0, cur))

SymTab_enter_block == AtEnter(BlockKinds) /\ SymTabEnter(st_enter_block(R0, cur))

SymTab_enter_sync ==
    /\ pass = "symtab" /\ phase = "enter"
    /\ Kind(cur) \notin ScopeIntroKinds \cup {"ModuleCode"}
    /\ SymTabEnter(st_enter_sync(R0, cur))

SymTab_exit_pop ==
    AtExit(ScopeIntroKinds) /\ SymTabExit(st_exit_pop(R0, cur))

SymTab_exit_global_vars ==
    AtExit({"GlobalVars"}) /\ SymTabExit(st_exit_global_vars(R0, cur))

SymTab_exit_import == AtExit({"Import"}) /\ SymTabExit(st_exit_import(R0, cur))

SymTab_exit_module_path ==
    AtExit({"ModulePath"}) /\ SymTabExit(st_exit_module_path(R0, cur))

\* A node kind with no exit handler: the traversal just moves on.
SymTab_exit_none ==
    /\ pass = "symtab" /\ phase = "exit"
    /\ Kind(cur) \notin ScopeIntroKinds \cup OtherExitKinds
    /\ SymTabExit(R0)

-----------------------------------------------------------------------------
(* DefUsePass.  Its handlers use no scope stack: they read node.sym_tab.    *)

\* Assignment.target.items / InnerCompr.target / ExprAsItem.alias
target_items(n) ==
    seq_of(UNION {Kids(l) : l \in {l \in Kids(n) :
                    Kind(l) = "SubNodeList" /\ Role(l) = "target"}})

kid_with_role(n, role) ==
    LET ks == {m \in Kids(n) : Role(m) = role}
    IN  IF ks = {} THEN 0 ELSE Min(ks)

\* The shape shared by every binding target: an attribute chain is defined
\* through the chain, a name is defined in its scope, anything else is a
\* collected error.
\* Variant: an invalid target raises instead of being collected.
define_target_raising(r, i, msg) ==
    IF r.ok # "ok" THEN r
    ELSE IF Kind(i) = "AtomTrailer"
    THEN [r EXCEPT !.h = chain_def_insert(r.h, as_attr_list(i))]
    ELSE IF IsSymbolNode(i)
    THEN insert_at(r, i, i, NoLabel)
    ELSE [error(r, msg) EXCEPT !.ok = "crash"]

define_target(r, i, msg) ==
    IF r.ok # "ok" THEN r
    ELSE IF Kind(i) = "AtomTrailer"
    THEN [r EXCEPT !.h = chain_def_insert(r.h, as_attr_list(i))]
    ELSE IF IsSymbolNode(i)
    THEN insert_at(r, i, i, NoLabel)
    ELSE error(r, msg)

\* Ability.body when it is a separately defined AbilityDef, else 0.
ability_def_of(i) ==
    LET ds == {m \in Nodes : Kind(m) = "AbilityDef" /\ T[m].x = i}
    IN  IF ds = {} THEN 0 ELSE Min(ds)

WalkerStmtKinds == {"VisitStmt", "IgnoreStmt", "DisengageStmt", "EdgeOpRef"}

\* inform_from_walker(node)
inform_from_walker(r, n) ==
    [r EXCEPT !.h.from_walker =
        @ \cup {m \in Nodes : InSubtree(m, n) /\ m # n
                              /\ Kind(m) \in WalkerStmtKinds}]

RECURSIVE inform_ability_defs(_, _, _)
inform_ability_defs(r, abs, k) ==
    IF k > Len(abs) THEN r
    ELSE IF ability_def_of(abs[k]) # 0
    THEN inform_ability_defs(inform_from_walker(r, ability_def_of(abs[k])),
                             abs, k + 1)
    ELSE inform_ability_defs(r, abs, k + 1)

\* Variant: the bases are linked last first.
du_enter_architype_reversed(r, n) ==
    LET bs == base_classes(n)
        rev == [k \in 1..Len(bs) |-> bs[Len(bs) + 1 - k]]
    IN  [r EXCEPT !.h = inherit_bases(r.h, r.h.sym_tab[n], rev, 1)]

\* Variant: the statements under a type of any kind are tagged.
du_enter_architype_any_kind(r, n) ==
    LET r1 == [r EXCEPT !.h = inherit_baseclasses_sym(r.h, n)]
        abs == seq_of({m \in Nodes : InSubtree(m, n) /\ m # n
                                     /\ Kind(m) = "Ability"})
    IN  inform_ability_defs(inform_from_walker(r1, n), abs, 1)

du_enter_architype(r, n) ==
    LET r1 == [r EXCEPT !.h = inherit_baseclasses_sym(r.h, n)]
        abs == seq_of({m \in Nodes : InSubtree(m, n) /\ m # n
                                     /\ Kind(m) = "Ability"})
    IN  IF Role(n) = "walker"
        THEN inform_ability_defs(inform_from_walker(r1, n), abs, 1)
        ELSE r1

du_enter_enum(r, n) == [r EXCEPT !.h = inherit_baseclasses_sym(r.h, n)]

\* enter_arch_ref, enter_special_var_ref and the literal handlers.
UseKinds ==
    {"ArchRef", "SpecialVarRef", "Float", "Int", "String", "Bool",
     "BuiltinType"}

du_enter_use(r, n) == [r EXCEPT !.h = use_lookup(r.h, n)]

du_enter_param_var(r, n) == insert_at(r, n, n, NoLabel)

du_enter_has_var(r, n) ==
    IF /\ Parent(n) # 0
       /\ Kind(Parent(n)) = "SubNodeList"
       /\ Parent(Parent(n)) # 0
       /\ Kind(Parent(Parent(n))) = "ArchHas"
    THEN insert_at(r, n, n, "has var")
    ELSE ice(r)

RECURSIVE define_targets(_, _, _, _)
define_targets(r, items, k, msg) ==
    IF k > Len(items) THEN r
    ELSE define_targets(define_target(r, items[k], msg), items, k + 1, msg)

du_enter_assignment(r, n) ==
    define_targets(r, target_items(n), 1, "InvalidAssignmentTarget")

du_enter_inner_compr(r, n) ==
    define_target(r, kid_with_role(n, "target"), "InvalidAssignmentTarget")

\* Variant: a chain that does not resolve to its end is reported.
du_enter_atom_trailer_strict(r, n) ==
    LET h1 == chain_use_lookup(r.h, as_attr_list(n))
        list == as_attr_list(n)
    IN  IF h1.sym[list[Len(list)]] = 0
        THEN error([r EXCEPT !.h = h1], "UnresolvedName")
        ELSE [r EXCEPT !.h = h1]

du_enter_atom_trailer(r, n) ==
    [r EXCEPT !.h = chain_use_lookup(r.h, as_attr_list(n))]

\* Variant: the name is looked up in every scope of the table.
du_enter_name_any_scope(r, n) ==
    LET hits == {i \in 1..Len(r.h.syms) : r.h.syms[i].name = SymName(n)}
    IN  IF Parent(n) # 0 /\ Kind(Parent(n)) = "AtomTrailer" THEN r
        ELSE IF hits = {} THEN r
        ELSE [r EXCEPT !.h = add_use(r.h, Min(hits), n)]

\* Variant: the name is looked up from the module scope.
du_enter_name_from_root(r, n) ==
    IF Parent(n) # 0 /\ Kind(Parent(n)) = "AtomTrailer" THEN r
    ELSE [r EXCEPT !.h = use_lookup_in(r.h, n, 1)]

du_enter_name(r, n) ==
    IF Parent(n) # 0 /\ Kind(Parent(n)) = "AtomTrailer" THEN r
    ELSE [r EXCEPT !.h = use_lookup(r.h, n)]

du_enter_in_for_stmt(r, n) ==
    define_target(r, kid_with_role(n, "target"), "InvalidAssignmentTarget")

\* Variant: deleting a name retracts the recorded uses of its symbol.
du_enter_delete_stmt_retract(r, n) ==
    LET t == kid_with_role(n, "target")
    IN  [r EXCEPT !.h.syms =
            [j \in DOMAIN @ |->
                IF @[j].name = SymName(t) THEN [@[j] EXCEPT !.uses = <<>>]
                ELSE @[j]],
                  !.h.del_ctx = @ \cup {t}]

\* The items are the values of a tuple target that has any, the target itself
\* otherwise; a chain gets the flag on its last segment, a name on itself.
du_enter_delete_stmt(r, n) ==
    LET t == kid_with_role(n, "target")
        vals == UNION {Kids(l) : l \in {l \in Kids(t) : Role(l) = "values"}}
        items == IF Kind(t) = "TupleVal" /\ vals # {} THEN seq_of(vals)
                 ELSE <<t>>
        RECURSIVE mark(_, _)
        mark(q, k) ==
            IF k > Len(items) THEN q
            ELSE LET i == items[k]
                     list == as_attr_list(i)
                 IN  IF Kind(i) = "AtomTrailer"
                     THEN mark([q EXCEPT !.h.del_ctx = @ \cup {list[Len(list)]}],
                               k + 1)
                     ELSE IF IsSymbolNode(i)
                     THEN mark([q EXCEPT !.h.del_ctx = @ \cup {i}], k + 1)
                     ELSE mark(error(q, "InvalidDeleteTarget"), k + 1)
    IN  mark(r, 1)

du_enter_expr_as_item(r, n) ==
    IF kid_with_role(n, "alias") = 0 THEN r
    ELSE define_target(r, kid_with_role(n, "alias"), "InvalidAssignmentTarget")

\* The kinds DefUsePass has an enter handler with an effect for.
DefUseKinds ==
    {"Architype", "Enum", "ParamVar", "HasVar", "Assignment", "InnerCompr",
     "AtomTrailer", "Name", "InForStmt", "DeleteStmt", "ExprAsItem"}
    \cup UseKinds

DefUseEnter(r) ==
    /\ Commit(r.h)
    /\ last' = <<pass, "enter", cur>>
    /\ IF r.ok = "ok"
       THEN /\ cur' = AfterEnter(cur)[1]
            /\ phase' = AfterEnter(cur)[2]
            /\ pass' = pass
       ELSE /\ pass' = Stopped(r.ok)
            /\ UNCHANGED <<cur, phase>>
    /\ UNCHANGED <<optimizer, parsed_from, tree, ir, start, subruns, pre, cur_sym_tab>>

DuAt(kinds) == pass = "defuse" /\ phase = "enter" /\ Kind(cur) \in kinds

DefUse_enter_architype ==
    DuAt({"Architype"}) /\ DefUseEnter(du_enter_architype(R0, cur))

DefUse_enter_enum == DuAt({"Enum"}) /\ DefUseEnter(du_enter_enum(R0, cur))

DefUse_enter_use == DuAt(UseKinds) /\ DefUseEnter(du_enter_use(R0, cur))

DefUse_enter_param_var ==
    DuAt({"ParamVar"}) /\ DefUseEnter(du_enter_param_var(R0, cur))

DefUse_enter_has_var ==
    DuAt({"HasVar"}) /\ DefUseEnter(du_enter_has_var(R0, cur))

DefUse_enter_assignment ==
    DuAt({"Assignment"}) /\ DefUseEnter(du_enter_assignment(R0, cur))

DefUse_enter_inner_compr ==
    DuAt({"InnerCompr"}) /\ DefUseEnter(du_enter_inner_compr(R0, cur))

DefUse_enter_atom_trailer ==
    DuAt({"AtomTrailer"}) /\ DefUseEnter(du_enter_atom_trailer(R0, cur))

DefUse_enter_name == DuAt({"Name"}) /\ DefUseEnter(du_enter_name(R0, cur))

DefUse_enter_in_for_stmt ==
    DuAt({"InForStmt"}) /\ DefUseEnter(du_enter_in_for_stmt(R0, cur))

DefUse_enter_delete_stmt ==
    DuAt({"DeleteStmt"}) /\ DefUseEnter(du_enter_delete_stmt(R0, cur))

DefUse_enter_expr_as_item ==
    DuAt({"ExprAsItem"}) /\ DefUseEnter(du_enter_expr_as_item(R0, cur))

\* A node kind whose enter handler is missing or is `pass`.
DefUse_enter_none ==
    /\ pass = "defuse" /\ phase = "enter"
    /\ Kind(cur) \notin DefUseKinds
    /\ DefUseEnter(R0)

\* DefUsePass has no exit handlers.
DefUse_exit_none ==
    /\ pass = "defuse" /\ phase = "exit"
    /\ last' = <<pass, "exit", cur>>
    /\ IF cur = start
       THEN /\ pass' = "done"
            /\ UNCHANGED <<cur, phase>>
       ELSE /\ cur' = AfterExit(cur)[1]
            /\ phase' = AfterExit(cur)[2]
            /\ pass' = pass
    /\ UNCHANGED <<optimizer, parsed_from, tree, ir, start, subruns, pre, cur_sym_tab, scopes, syms,
                   sym_tab, sym, errors, from_walker, del_ctx, gen,
                   indent_level, comments>>

-----------------------------------------------------------------------------
(* JacFormatPass.  A generated text is a sequence of atoms: the values of   *)
(* tokens, the space " " and the line break "\n".  The handlers take and    *)
(* return the same record r as the other passes and ignore its scope stack. *)

\* The node classes that are ast.Token, and AstNode.kid as a list.
TokenKinds ==
    {"Token", "Name", "Semi", "CommentToken", "String", "Int", "Float",
     "Bool", "Null", "BuiltinType"}
IsTokenNode(n) == Kind(n) \in TokenKinds
TokName(n) == IF Kind(n) = "Token" THEN Role(n) ELSE Kind(n)
KidSeq(n) == seq_of(Kids(n))
LastKid(n) == Max(Kids(n))

\* A value as a text, and the str methods the handlers use.
Text(v) == IF v = "" THEN <<>> ELSE <<v>>
Val(n) == Text(T[n].nm)
EndsWith(t, suf) ==
    Len(t) >= Len(suf) /\ SubSeq(t, Len(t) - Len(suf) + 1, Len(t)) = suf
rstrip(t) ==
    LET keep == {i \in 1..Len(t) : t[i] # " "}
    IN  IF keep = {} THEN <<>> ELSE SubSeq(t, 1, Max(keep))
strip(t) ==
    LET keep == {i \in 1..Len(t) : t[i] \notin {" ", "\n"}}
    IN  IF keep = {} THEN <<>> ELSE SubSeq(t, Min(keep), Max(keep))

\* indent_str(): " " * indent_size * indent_level, with indent_size = 4.
indent_str(level) == IF level > 0 THEN [i \in 1..(4 * level) |-> " "] ELSE <<>>

\* re.sub(r"\n(?!\n)", "\n" + indent_str, s)
RECURSIVE indented(_, _, _)
indented(s, k, ind) ==
    IF k > Len(s) THEN <<>>
    ELSE (IF s[k] = "\n" /\ (k = Len(s) \/ s[k + 1] # "\n")
          THEN <<"\n">> \o ind ELSE <<s[k]>>) \o indented(s, k + 1, ind)

\* Variant: the node the text is emitted to is also marked as resolved.
emit_marking_sym(r, n, s) ==
    LET ind == indent_str(r.h.indent_level)
        out == r.h.gen[n] \o ind \o indented(s, 1, ind)
    IN  IF r.ok # "ok" THEN r
        ELSE [r EXCEPT !.h.gen[n] =
                 IF \E i \in 1..Len(out) : out[i] = "\n" THEN rstrip(out)
                 ELSE out,
                       !.h.sym[n] = 1]

\* emit(node, s)
emit(r, n, s) ==
    LET ind == indent_str(r.h.indent_level)
        out == r.h.gen[n] \o ind \o indented(s, 1, ind)
    IN  IF r.ok # "ok" THEN r
        ELSE [r EXCEPT !.h.gen[n] =
                 IF \E i \in 1..Len(out) : out[i] = "\n" THEN rstrip(out)
                 ELSE out]

\* emit_ln(node, s)
emit_ln(r, n, s) == emit(emit(r, n, strip(s)), n, <<"\n">>)

\* self.indent_level += d
bump(r, d) ==
    IF r.ok # "ok" THEN r ELSE [r EXCEPT !.h.indent_level = @ + d]

\* indent_level -= 1; emit_ln(node, s); indent_level += 1
dedent_ln(r, n, s) == bump(emit_ln(bump(r, -1), n, s), 1)

\* Indexing an empty kid list raises IndexError.
index_error(r) == IF r.ok # "ok" THEN r ELSE [r EXCEPT !.ok = "crash"]

\* for j in i.kid: emit(node, j.gen.jac)
RECURSIVE emit_kids(_, _, _, _)
emit_kids(r, n, kids, k) ==
    IF k > Len(kids) THEN r
    ELSE emit_kids(emit(r, n, r.h.gen[kids[k]]), n, kids, k + 1)

\* self.ir.terminals[index(node) - 1], 0 for None.
TokenBefore(i) ==
    LET before == {m \in Nodes : IsTokenNode(m) /\ m < i}
    IN  IF before = {} THEN 0 ELSE Max(before)

\* token_before(node): the pass raises unless it was started at a module.
token_before(r, i) == IF Kind(start) # "Module" THEN raise_ice(r) ELSE r

\* enter_node: the slot is emptied, then the kind's enter handler runs.
enter_node(r, n) == [r EXCEPT !.h.gen[n] = <<>>]

\* enter_module: self.comments = node.source.comments
enter_module(r, n) ==
    [r EXCEPT !.h.comments = {m \in Nodes : Kind(m) = "CommentToken"}]

\* exit_module, the loop over node.kid.
RECURSIVE module_kids(_, _, _, _)
module_kids(r, n, kids, k) ==
    IF k > Len(kids) THEN r
    ELSE LET i == kids[k]
             g == r.h.gen[i]
             step ==
                 IF Kind(i) = "String"
                 THEN emit_ln(emit_ln(r, n, <<" ">> \o g), n, <<>>)
                 ELSE IF Kind(i) = "CommentToken" /\ Role(i) = "inline"
                 THEN emit(r, n, <<" ">> \o g)
                 ELSE IF Kind(i) = "CommentToken"
                 THEN emit_ln(IF k > 1 THEN emit_ln(r, n, <<>>) ELSE r, n, g)
                 ELSE IF IsTokenNode(i) THEN emit(r, n, Val(i) \o <<" ">>)
                 ELSE IF Kind(i) = "SubTag" THEN emit_kids(r, n, KidSeq(i), 1)
                 ELSE r
         IN  module_kids(step, n, kids, k + 1)

\* exit_module, the loop over node.body.
RECURSIVE module_body(_, _, _, _)
module_body(r, n, body, k) ==
    IF k > Len(body) THEN r
    ELSE LET i == body[k]
             last_element == IF k = 1 THEN 0 ELSE body[k - 1]
             r1 == IF /\ last_element # 0
                      /\ T[i].l1 - T[last_element].l2 > 1
                      /\ ~EndsWith(r.h.gen[last_element], <<"\n", "\n">>)
                   THEN emit_ln(r, n, <<>>) ELSE r
             r2 == IF /\ Kind(i) # "Import"
                      /\ last_element # 0
                      /\ Kind(i) = "Architype"
                      /\ Kind(last_element) = "Architype"
                      /\ T[i].l1 - T[last_element].l2 = 2
                      /\ ~EndsWith(r1.h.gen[n], <<"\n", "\n">>)
                   THEN emit_ln(r1, n, <<>>) ELSE r1
         IN  module_body(emit_ln(r2, n, r2.h.gen[i]), n, body, k + 1)

exit_module(r, n) ==
    module_body(module_kids(r, n, KidSeq(n), 1), n,
                seq_of({m \in Kids(n) : ~IsTokenNode(m)}), 1)

RECURSIVE module_code_kids(_, _, _, _, _)
module_code_kids(r, n, kids, k, begin) ==
    IF k > Len(kids) THEN r
    ELSE LET i == kids[k]
             g == r.h.gen[i]
         IN  IF Kind(i) = "String"
             THEN module_code_kids(emit_ln(r, n, g), n, kids, k + 1, begin)
             ELSE IF IsTokenNode(i)
             THEN module_code_kids(
                      emit(r, n, IF begin THEN g ELSE <<" ">> \o g),
                      n, kids, k + 1, FALSE)
             ELSE IF Kind(i) = "SubTag"
             THEN module_code_kids(emit_kids(r, n, KidSeq(i), 1),
                                   n, kids, k + 1, begin)
             ELSE module_code_kids(r, n, kids, k + 1, begin)

exit_module_code(r, n) ==
    LET body == {m \in Kids(n) : Kind(m) = "SubNodeList"}
        r1 == module_code_kids(r, n, KidSeq(n), 1, TRUE)
    IN  IF body = {} THEN r1 ELSE emit(r1, n, r1.h.gen[Max(body)])

\* exit_sub_node_list, the loop over node.kid; prev_token is the kid before.
\* Each operator of the LET is one stretch of the loop's body, applied to
\* what the stretch before it left.
RECURSIVE sub_node_list_kids(_, _, _, _)
sub_node_list_kids(r, n, kids, k) ==
    IF k > Len(kids) \/ r.ok # "ok" THEN r
    ELSE
    LET stmt == kids[k]
        prev_token == IF k = 1 THEN 0 ELSE kids[k - 1]
        gap == prev_token # 0 /\ T[stmt].l1 - T[prev_token].l2 > 1
        block == Kids(stmt) # {} /\ Kind(LastKid(stmt)) = "SubNodeList"
        plain_block ==
            /\ block
            /\ Kids(LastKid(stmt)) # {}
            /\ Kind(LastKid(LastKid(stmt))) # "CommentToken"
        line_emiited == gap /\ ~plain_block
        prev_is(x, text) ==
            prev_token # 0 /\ strip(x.h.gen[prev_token]) = <<text>>
        \* a blank line in the source before stmt
        blank(x) ==
            IF ~gap THEN x
            ELSE IF block /\ Kids(LastKid(stmt)) = {} THEN index_error(x)
            ELSE IF plain_block THEN emit(x, n, <<>>)
            ELSE dedent_ln(x, n, <<>>)
        in_enum(x) ==
            /\ Parent(n) # 0
            /\ Kind(Parent(n)) \in {"EnumDef", "Enum"}
            /\ x.h.gen[stmt] = <<",">>
        \* a closing brace ends the kid before
        closed(x) ==
            IF /\ prev_token # 0
               /\ EndsWith(x.h.gen[prev_token], <<"}">>)
               /\ Kind(prev_token) \notin {"DictVal", "SetVal"}
            THEN dedent_ln(x, n, <<>>) ELSE x
        \* isinstance(stmt, ast.Token): a name after the opening brace
        opened(x) ==
            IF /\ Kind(stmt) = "Name"
               /\ prev_token # 0
               /\ x.h.gen[prev_token] = <<"{">>
            THEN bump(emit_ln(x, n, <<>>), 1) ELSE x
        lowered(x) == [x EXCEPT !.h.indent_level = Max({0, @ - 1})]
        ended(x) ==
            IF strip(x.h.gen[n]) = <<"{">> \/ EndsWith(x.h.gen[n], <<"\n">>)
            THEN x ELSE emit_ln(x, n, <<>>)
        rbrace(x) == emit(ended(lowered(x)), n, Val(stmt))
        after_token(x) ==
            IF /\ prev_token # 0
               /\ \/ Kind(prev_token) = "Semi"
                  \/ /\ IsTokenNode(prev_token)
                     /\ TokName(prev_token) \in {"LBRACE", "RBRACE"}
            THEN bump(emit_ln(emit(bump(x, -1), n, <<" ">> \o x.h.gen[stmt]),
                              n, <<>>), 1)
            ELSE emit(x, n, <<" ">> \o x.h.gen[stmt])
        broken(x) == IF line_emiited THEN x ELSE dedent_ln(x, n, <<>>)
        inline(x) == broken(after_token(x))
        fresh_line(x) ==
            IF EndsWith(x.h.gen[n], <<"\n">>) THEN x ELSE dedent_ln(x, n, <<>>)
        inside(x) == IF prev_is(x, "{") THEN bump(x, 1) ELSE x
        after_brace(x) ==
            IF /\ TokenBefore(stmt) # 0
               /\ TokName(TokenBefore(stmt)) = "LBRACE"
               /\ T[stmt].l1 - T[TokenBefore(stmt)].l2 > 1
            THEN dedent_ln(x, n, <<>>) ELSE x
        written(x) == bump(emit(x, n, x.h.gen[stmt]), -1)
        both_ended(x) == bump(emit_ln(emit_ln(x, stmt, <<>>), n, <<>>), 1)
        placed(x) ==
            IF prev_token # 0 /\ Kind(prev_token) = "Ability"
            THEN emit(x, n, x.h.gen[stmt])
            ELSE both_ended(written(after_brace(token_before(x, stmt))))
        own_line(x) == placed(inside(fresh_line(x)))
        token(x) ==
            IF TokName(stmt) = "LBRACE" THEN emit(x, n, <<" ">> \o Val(stmt))
            ELSE IF TokName(stmt) = "RBRACE" THEN rbrace(x)
            ELSE IF Kind(stmt) = "CommentToken" /\ Role(stmt) = "inline"
            THEN inline(x)
            ELSE IF Kind(stmt) = "CommentToken" THEN own_line(x)
            ELSE IF x.h.gen[stmt] = <<",">>
            THEN emit(x, n, Val(stmt) \o <<" ">>)
            ELSE IF T[stmt].nm = "="
            THEN emit(x, n, <<" ">> \o Val(stmt) \o <<" ">>)
            ELSE IF prev_is(x, "@") THEN emit_ln(x, n, Val(stmt))
            ELSE emit(x, n, x.h.gen[stmt])
        \* a member after the has variables, an ability after an ability
        members ==
            /\ prev_token # 0
            /\ \/ /\ Kind(prev_token) \in {"HasVar", "ArchHas"}
                  /\ Kind(stmt) \notin {"HasVar", "ArchHas"}
               \/ /\ Kind(prev_token) = "Ability"
                  /\ Kind(stmt) \in {"Ability", "AbilityDef"}
        parted(x) ==
            LET pk == LastKid(prev_token)
                pblock == Kind(pk) = "SubNodeList"
            IN  IF Kids(prev_token) = {} THEN index_error(x)
                ELSE IF Kind(pk) = "CommentToken" \/ line_emiited THEN x
                ELSE IF pblock /\ Kids(pk) = {} THEN index_error(x)
                ELSE IF /\ pblock
                        /\ Kind(LastKid(pk)) = "CommentToken"
                        /\ T[stmt].l1 - T[LastKid(pk)].l1 <= 1
                THEN emit(x, n, <<>>)
                ELSE dedent_ln(x, n, <<>>)
        entered(x) ==
            IF prev_is(x, "{") THEN bump(emit_ln(x, n, <<>>), 1) ELSE x
        copied(x) == emit(x, n, x.h.gen[stmt])
        body(x) ==
            IF x.ok # "ok" THEN x
            ELSE IF in_enum(x) THEN dedent_ln(x, n, x.h.gen[stmt])
            ELSE IF IsTokenNode(stmt) THEN token(opened(closed(x)))
            ELSE IF members THEN copied(parted(closed(x)))
            ELSE copied(entered(closed(x)))
    IN  sub_node_list_kids(body(blank(r)), n, kids, k + 1)

exit_sub_node_list(r, n) == sub_node_list_kids(r, n, KidSeq(n), 1)

\* The operators exit_binary_expr prints.
BinaryOps ==
    {"+", "-", "*", "/", "%", "**", "+=", "-=", "*=", "/=", "%=", "**=",
     ">>", "<<", ">>=", "<<=", "//=", "&=", "|=", "^=", "~=", "//", "&", "|",
     "^", ">", "<", ">=", "<=", "==", "!=", ":=", "and", "or", "in", "not in",
     "is", "is not"}
BinaryOpNames ==
    {"PIPE_BKWD", "A_PIPE_BKWD", "PIPE_FWD", "KW_SPAWN", "A_PIPE_FWD"}

\* exit_binary_expr: node.left, node.op and node.right are the first kids.
exit_binary_expr(r, n) ==
    LET kids == KidSeq(n)
        left == r.h.gen[kids[1]]
        op == kids[2]
        right == r.h.gen[kids[3]]
        r1 == IF Kind(op) \in {"DisconnectOp", "ConnectOp"}
              THEN emit(r, n, left \o <<" ">> \o r.h.gen[op] \o <<" ">> \o right)
              ELSE IF ~IsTokenNode(op) THEN r
              ELSE IF T[op].nm \in BinaryOps \/ TokName(op) \in BinaryOpNames
              THEN emit(r, n, left \o <<" ">> \o Val(op) \o <<" ">> \o right)
              ELSE error(r, "Binary operator not supported in bootstrap Jac")
    IN  IF /\ Kind(LastKid(n)) \in {"Semi", "CommentToken"}
           /\ ~EndsWith(r1.h.gen[n], <<"\n">>)
        THEN emit_ln(r1, n, Val(LastKid(n)))
        ELSE r1

RECURSIVE expr_stmt_kids(_, _, _, _, _)
expr_stmt_kids(r, n, kids, k, begin) ==
    IF k > Len(kids) \/ r.ok # "ok" THEN r
    ELSE LET i == kids[k]
             g == r.h.gen[i]
             tok == TokenBefore(i)
             r1 == token_before(r, i)
         IN  IF Kind(i) = "CommentToken" /\ Role(i) = "inline"
             THEN expr_stmt_kids(emit(r, n, <<" ">> \o g), n, kids, k + 1, begin)
             ELSE IF Kind(i) = "CommentToken"
             THEN expr_stmt_kids(
                      emit(IF tok # 0 /\ T[i].l1 - T[tok].l1 = 1
                           THEN emit_ln(r1, n, <<>>)
                           ELSE emit_ln(emit_ln(r1, n, <<>>), n, <<>>), n, g),
                      n, kids, k + 1, begin)
             ELSE IF Kind(i) = "Semi"
             THEN expr_stmt_kids(emit(r, n, g), n, kids, k + 1, begin)
             ELSE expr_stmt_kids(
                      emit(r, n, IF begin THEN g ELSE <<" ">> \o g),
                      n, kids, k + 1, FALSE)

exit_expr_stmt(r, n) ==
    LET r1 == expr_stmt_kids(r, n, KidSeq(n), 1, TRUE)
    IN  IF Kids(n) = {} THEN index_error(r1)
        ELSE IF Kind(LastKid(n)) \in {"Semi", "CommentToken"}
        THEN emit_ln(r1, n, <<>>)
        ELSE r1

\* exit_architype, the loop over node.kid; prev_token is the kid before.
RECURSIVE architype_kids(_, _, _, _, _)
architype_kids(r, n, kids, k, begin) ==
    IF k > Len(kids) \/ r.ok # "ok" THEN r
    ELSE
    LET i == kids[k]
        g == r.h.gen[i]
        prev_token == IF k = 1 THEN 0 ELSE kids[k - 1]
        tok == TokenBefore(i)
        doc(x) ==
            emit_ln(IF prev_token # 0 /\ strip(x.h.gen[prev_token]) = <<"obj">>
                    THEN emit(x, n, <<" ">>) ELSE x, n, g)
        inline(x) ==
            IF prev_token # 0 /\ Kind(prev_token) = "Semi"
            THEN emit_ln(emit(x, n, g), n, <<>>) ELSE emit(x, n, g)
        own_line(x) ==
            IF tok # 0 /\ T[i].l1 - T[tok].l1 > 1
            THEN emit_ln(emit_ln(x, n, <<>>), n, g)
            ELSE emit_ln(emit_ln(x, n, g), n, <<>>)
        joined ==
            begin \/ (prev_token # 0 /\ Kind(prev_token) = "String")
                  \/ (g # <<>> /\ g[1] = " ")
    IN  IF Kind(i) = "String"
        THEN architype_kids(doc(r), n, kids, k + 1, begin)
        ELSE IF Kind(i) = "CommentToken" /\ Role(i) = "inline"
        THEN architype_kids(inline(r), n, kids, k + 1, begin)
        ELSE IF Kind(i) = "CommentToken"
        THEN architype_kids(own_line(token_before(r, i)), n, kids, k + 1, begin)
        ELSE IF Kind(i) = "Semi"
        THEN architype_kids(emit(r, n, g \o <<" ">>), n, kids, k + 1, begin)
        ELSE IF Kind(i) = "SubNodeList" /\ g # <<>> /\ g[1] = "@"
        THEN architype_kids(emit_ln(r, n, g), n, kids, k + 1, begin)
        ELSE architype_kids(emit(r, n, IF joined THEN g ELSE <<" ">> \o g),
                            n, kids, k + 1, FALSE)

exit_architype(r, n) ==
    LET r1 == architype_kids(r, n, KidSeq(n), 1, TRUE)
    IN  IF Kids(n) = {} THEN index_error(r1)
        ELSE IF /\ Kind(LastKid(n)) = "Semi"
                /\ ~EndsWith(r1.h.gen[n], <<"\n">>)
        THEN emit_ln(r1, n, <<>>)
        ELSE r1

\* exit_typed_ctx_block: pass
exit_typed_ctx_block(r, n) == r

\* exit_py_inline_code: node.code is the only kid.
exit_py_inline_code(r, n) ==
    emit_ln(emit_ln(emit_ln(r, n, <<"::py::">>), n, Val(LastKid(n))),
            n, <<"::py::">>)

\* len(s), the number of characters of a text.
RECURSIVE len(_, _)
len(s, k) == IF k > Len(s) THEN 0 ELSE Len(s[k]) + len(s, k + 1)

\* is_line_break_needed(content, max_line_length)
is_line_break_needed(content, max_line_length) ==
    len(content, 1) > max_line_length

\* exit_k_v_pair
RECURSIVE k_v_pair_kids(_, _, _, _)
k_v_pair_kids(r, n, kids, k) ==
    IF k > Len(kids) THEN r
    ELSE k_v_pair_kids(
             emit(r, n, IF r.h.gen[kids[k]] = <<":">> THEN <<":", " ">>
                        ELSE r.h.gen[kids[k]]),
             n, kids, k + 1)

exit_k_v_pair(r, n) == k_v_pair_kids(r, n, KidSeq(n), 1)

\* The width a dict literal is wrapped at (exit_dict_val).
DictLineLength == 60

\* exit_dict_val: test_str, the literal as it would stand on one line.
RECURSIVE kv_pairs_text(_, _, _)
kv_pairs_text(r, pairs, k) ==
    IF k > Len(pairs) THEN <<>>
    ELSE r.h.gen[pairs[k]] \o kv_pairs_text(r, pairs, k + 1)

test_str(r, n) ==
    LET kv_pairs == seq_of({m \in Kids(n) : Kind(m) = "KVPair"})
    IN  IF kv_pairs = <<>> THEN <<>>
        ELSE <<"{">> \o kv_pairs_text(r, kv_pairs, 1) \o <<"};">>

\* exit_dict_val, the loop over node.kid; prev_token is the kid before.
RECURSIVE dict_val_kids(_, _, _, _, _, _, _)
dict_val_kids(r, n, kids, k, begin, line_break_needed, is_indented) ==
    IF k > Len(kids) \/ r.ok # "ok" THEN r
    ELSE LET i == kids[k]
             g == r.h.gen[i]
             prev_token == IF k = 1 THEN 0 ELSE kids[k - 1]
         IN  IF Kind(i) = "CommentToken"
             THEN dict_val_kids(
                      IF Role(i) = "inline" THEN emit(r, n, <<" ">> \o g)
                      ELSE emit_ln(r, n, g),
                      n, kids, k + 1, FALSE, line_break_needed, is_indented)
             ELSE IF /\ is_line_break_needed(test_str(r, n), DictLineLength)
                     /\ g = <<"{">>
             THEN dict_val_kids(emit_ln(r, n, g), n, kids, k + 1, FALSE, TRUE,
                                is_indented)
             ELSE IF /\ prev_token # 0
                     /\ IsTokenNode(prev_token)
                     /\ TokName(prev_token) = "LBRACE"
             THEN dict_val_kids(
                      emit(IF line_break_needed /\ ~is_indented
                           THEN bump(r, 1) ELSE r, n, g),
                      n, kids, k + 1, FALSE, line_break_needed,
                      is_indented \/ line_break_needed)
             ELSE IF Kind(i) = "Semi" \/ g = <<",">>
             THEN dict_val_kids(
                      IF line_break_needed /\ is_indented
                      THEN dedent_ln(r, n, g) ELSE emit(r, n, g),
                      n, kids, k + 1, FALSE, line_break_needed, is_indented)
             ELSE IF begin \/ g = <<"}">>
             THEN IF line_break_needed
                  THEN dict_val_kids(emit(bump(r, -1), n, <<"\n">> \o g),
                                     n, kids, k + 1, FALSE, FALSE, FALSE)
                  ELSE dict_val_kids(emit(r, n, g), n, kids, k + 1, FALSE,
                                     line_break_needed, is_indented)
             ELSE dict_val_kids(
                      emit(r, n, IF line_break_needed THEN g
                                 ELSE <<" ">> \o g),
                      n, kids, k + 1, FALSE, line_break_needed, is_indented)

exit_dict_val(r, n) ==
    LET r1 == dict_val_kids(r, n, KidSeq(n), 1, TRUE, FALSE, FALSE)
    IN  IF Kids(n) = {} THEN index_error(r1)
        ELSE IF Kind(LastKid(n)) \in {"Semi", "CommentToken"}
        THEN emit_ln(r1, n, <<>>)
        ELSE r1

\* exit_token, exit_semi, exit_comment_token: emit(node, node.value)
exit_token(r, n) == emit(r, n, Val(n))

\* exit_name: a keyword-escaped name keeps its <> prefix.
exit_name(r, n) ==
    emit(r, n, IF Role(n) = "kwesc" THEN <<"<>">> \o Val(n) ELSE Val(n))

\* The node kinds whose formatter handlers are modelled.
FormatKinds ==
    {"Module", "ModuleCode", "SubNodeList", "ExprStmt", "BinaryExpr",
     "TypedCtxBlock", "PyInlineCode", "Token", "Semi", "CommentToken", "Name",
     "Architype", "DictVal", "KVPair"}

FormatEnter(r) ==
    /\ Commit(r.h)
    /\ last' = <<pass, "enter", cur>>
    /\ cur' = AfterEnter(cur)[1]
    /\ phase' = AfterEnter(cur)[2]
    /\ UNCHANGED <<optimizer, parsed_from, tree, ir, pass, start, subruns, pre, cur_sym_tab>>

FormatExit(r) ==
    /\ Commit(r.h)
    /\ last' = <<pass, "exit", cur>>
    /\ IF r.ok # "ok"
       THEN /\ pass' = Stopped(r.ok)
            /\ UNCHANGED <<cur, phase>>
       ELSE IF cur = start
       THEN /\ pass' = "formatted"
            /\ UNCHANGED <<cur, phase>>
       ELSE /\ cur' = AfterExit(cur)[1]
            /\ phase' = AfterExit(cur)[2]
            /\ pass' = pass
    /\ UNCHANGED <<optimizer, parsed_from, tree, ir, start, subruns, pre, cur_sym_tab>>

FmtAt(kinds) == pass = "format" /\ phase = "exit" /\ Kind(cur) \in kinds

Format_enter_module ==
    /\ pass = "format" /\ phase = "enter" /\ Kind(cur) = "Module"
    /\ FormatEnter(enter_module(enter_node(R0, cur), cur))

Format_enter_node ==
    /\ pass = "format" /\ phase = "enter" /\ Kind(cur) # "Module"
    /\ FormatEnter(enter_node(R0, cur))

Format_exit_module == FmtAt({"Module"}) /\ FormatExit(exit_module(R0, cur))

Format_exit_module_code ==
    FmtAt({"ModuleCode"}) /\ FormatExit(exit_module_code(R0, cur))

Format_exit_sub_node_list ==
    FmtAt({"SubNodeList"}) /\ FormatExit(exit_sub_node_list(R0, cur))

Format_exit_binary_expr ==
    FmtAt({"BinaryExpr"}) /\ FormatExit(exit_binary_expr(R0, cur))

Format_exit_expr_stmt ==
    FmtAt({"ExprStmt"}) /\ FormatExit(exit_expr_stmt(R0, cur))

Format_exit_architype ==
    FmtAt({"Architype"}) /\ FormatExit(exit_architype(R0, cur))

Format_exit_typed_ctx_block ==
    FmtAt({"TypedCtxBlock"}) /\ FormatExit(exit_typed_ctx_block(R0, cur))

Format_exit_py_inline_code ==
    FmtAt({"PyInlineCode"}) /\ FormatExit(exit_py_inline_code(R0, cur))

Format_exit_token ==
    FmtAt({"Token", "Semi", "CommentToken"}) /\ FormatExit(exit_token(R0, cur))

Format_exit_name == FmtAt({"Name"}) /\ FormatExit(exit_name(R0, cur))

Format_exit_dict_val ==
    FmtAt({"DictVal"}) /\ FormatExit(exit_dict_val(R0, cur))

Format_exit_k_v_pair ==
    FmtAt({"KVPair"}) /\ FormatExit(exit_k_v_pair(R0, cur))

-----------------------------------------------------------------------------
(* The actions optimizer (ActionsOptimizer): it loads an action as a module *)
(* of the process or as a remote service, and under the Evaluation and the  *)
(* Auto policy it cycles through the possible configurations when JSORC     *)
(* calls run.  A call of a method is one step.  ActionsState, live_actions  *)
(* and the kube service are collaborators of the class.                     *)

\* The keys of action_configs, in the order they are listed in, and a name
\* that is not an action.
ActionConfigs == {"a1", "a2"}
ActionOrder == <<"a1", "a2">>
Unconfigured == "zz"

POLICIES == {"Default", "Evaluation", "Auto"}

\* THRESHOLD = 0.1, a latency being counted in tenths of a second.
THRESHOLD == 1
WINDOW_SIZE == 4

\* policy_params.get("eval_phase", 10), and the jsorc_interval of a call.
EvalPhase == 10
JsorcInterval == 5

\* self.policy_state[policy] = {}, and ActionsState.init_state(name).
NoPolicyState == [phase |-> "None"]
NoState ==
    [mode |-> "None", module |-> FALSE, url |-> "None", status |-> "None"]

\* The optimizer as a method call finds it; ret is the value it returns,
\* and spawned, checked, applied, changes, loaded and changed tell what the
\* call did (before: the modes apply_actions_change found).
O0 ==
    [actions_state |-> actions_state, actions_change |-> actions_change,
     actions_calls |-> actions_calls, benchmark |-> benchmark,
     policy_state |-> policy_state, live_actions |-> live_actions,
     kube |-> kube, change_state |-> <<>>, ret |-> FALSE, spawned |-> FALSE,
     checked |-> "None", applied |-> FALSE, changes |-> <<>>, loaded |-> {},
     before |-> <<>>, changed |-> FALSE]

\* ActionsState.get_state(name) is None
unknown(o, name) == name \notin DOMAIN o.actions_state

\* cur_state = get_state(name); if cur_state is None: init_state(name)
init_state(o, name) ==
    IF ~unknown(o, name) THEN o
    ELSE [o EXCEPT !.actions_state =
             [n \in DOMAIN o.actions_state \cup {name} |->
                 IF n = name THEN NoState ELSE o.actions_state[n]]]

\* ActionsState: the transitions of one action's record.
start_remote_service(o, name) ==
    [o EXCEPT !.actions_state[name].url = "url",
              !.actions_state[name].status = "STARTING"]

set_remote_action_ready(o, name) ==
    [o EXCEPT !.actions_state[name].status = "READY"]

remote_action_loaded(o, name) ==
    [o EXCEPT !.actions_state[name].mode = "remote"]

remote_action_unloaded(o, name) ==
    [o EXCEPT !.actions_state[name].mode = "None"]

module_action_loaded(o, name) ==
    [o EXCEPT !.actions_state[name].mode = "module",
              !.actions_state[name].module = TRUE]

module_action_unloaded(o, name) ==
    [o EXCEPT !.actions_state[name].module = FALSE,
              !.actions_state[name].mode = IF @ = "module" THEN "None" ELSE @]

\* ActionsState.get_active_actions(): the actions that are loaded.
get_active_actions(o) ==
    LET active(n) == ~unknown(o, n) /\ o.actions_state[n].mode # "None"
    IN  SelectSeq(ActionOrder, active)

\* live_actions: load_remote_actions(url), unload_remote_actions(url),
\* unload_module(module); load_module_actions succeeds when the module can
\* be imported.
load_remote_actions(o, name) == [o EXCEPT !.live_actions[name].remote = TRUE]
unload_remote_actions(o, name) ==
    [o EXCEPT !.live_actions[name].remote = FALSE]
load_module_actions(o, name) ==
    IF modules[name] THEN [o EXCEPT !.live_actions[name].module = TRUE] ELSE o
unload_module(o, name) == [o EXCEPT !.live_actions[name].module = FALSE]

\* spawn_remote: kube_create of the action's remote configuration.
spawn_remote(o, name) ==
    [o EXCEPT !.kube[name] = IF @ = "absent" THEN "starting" ELSE @,
              !.spawned = TRUE]

\* remote_action_ready_check: the service answers its action spec.
remote_action_ready_check(o, name) ==
    o.actions_state[name].url # "None" /\ o.kube[name] = "up"

\* unload_action_module
unload_action_module(o, name) ==
    IF unknown(o, name) THEN [o EXCEPT !.ret = FALSE]
    ELSE [module_action_unloaded(unload_module(o, name), name)
             EXCEPT !.ret = TRUE]

\* unload_action_remote
unload_action_remote(o, name) ==
    IF unknown(o, name) THEN [o EXCEPT !.ret = FALSE]
    ELSE IF o.actions_state[name].mode # "remote"
    THEN [o EXCEPT !.ret = FALSE]
    ELSE IF o.actions_state[name].status # "READY"
    THEN [o EXCEPT !.ret = FALSE]
    ELSE [remote_action_unloaded(unload_remote_actions(o, name), name)
             EXCEPT !.ret = TRUE]

\* unload_action_auto
unload_action_auto(o, name) ==
    IF unknown(o, name) THEN [o EXCEPT !.ret = FALSE]
    ELSE IF o.actions_state[name].mode = "module"
    THEN unload_action_module(o, name)
    ELSE IF o.actions_state[name].mode = "remote"
    THEN unload_action_remote(o, name)
    ELSE [o EXCEPT !.ret = FALSE]

\* load_action_remote, from the test of the recorded url on.
remote_spawned(o, name) ==
    IF o.actions_state[name].url = "None"
    THEN start_remote_service(spawn_remote(o, name), name)
    ELSE o

remote_checked(o, name) ==
    IF o.actions_state[name].status # "STARTING" THEN o
    ELSE IF remote_action_ready_check(o, name)
    THEN [set_remote_action_ready(o, name) EXCEPT !.checked = "ready"]
    ELSE [o EXCEPT !.checked = "failed"]

\* A variant of remote_ready that loads the remote actions whatever the
\* status is.
remote_ready_unchecked(o, name, unload_existing) ==
    [remote_action_loaded(load_remote_actions(o, name), name)
        EXCEPT !.ret = TRUE]

remote_ready(o, name, unload_existing) ==
    IF o.actions_state[name].status # "READY" THEN [o EXCEPT !.ret = FALSE]
    ELSE IF unload_existing
    THEN [unload_action_module(
              remote_action_loaded(load_remote_actions(o, name), name), name)
             EXCEPT !.ret = TRUE]
    ELSE [remote_action_loaded(load_remote_actions(o, name), name)
             EXCEPT !.ret = TRUE]

known_remote(o, name, unload_existing) ==
    IF /\ o.actions_state[name].mode = "remote"
       /\ o.actions_state[name].status = "READY"
    THEN [o EXCEPT !.ret = TRUE]
    ELSE remote_ready(remote_checked(remote_spawned(o, name), name), name,
                      unload_existing)

load_action_remote(o, name, unload_existing) ==
    known_remote(init_state(o, name), name, unload_existing)

\* load_action_module
known_module(o, name, unload_existing) ==
    IF o.actions_state[name].mode = "module" THEN [o EXCEPT !.ret = TRUE]
    ELSE IF name \notin ActionConfigs THEN [o EXCEPT !.ret = FALSE]
    ELSE IF ~modules[name] THEN [o EXCEPT !.ret = FALSE]
    ELSE IF unload_existing
    THEN [unload_action_remote(
              module_action_loaded(load_module_actions(o, name), name), name)
             EXCEPT !.ret = TRUE]
    ELSE [module_action_loaded(load_module_actions(o, name), name)
             EXCEPT !.ret = TRUE]

load_action_module(o, name, unload_existing) ==
    known_module(init_state(o, name), name, unload_existing)

\* "to_remote" in change
Contains(s, sub) ==
    \E i \in 1..(Len(s) - Len(sub) + 1) : SubSeq(s, i, i + Len(sub) - 1) = sub

\* _get_action_change, the loop over new_action_state.items()
changed_entry(o, name, new_state) ==
    LET mode == o.actions_state[name].mode
    IN  IF new_state = mode THEN o
        ELSE [o EXCEPT !.change_state =
                 Append(@, <<name, (IF mode = "None" THEN "" ELSE mode)
                                   \o "_to_" \o new_state>>)]

RECURSIVE change_state_of(_, _, _)
change_state_of(o, items, k) ==
    IF k > Len(items) THEN o
    ELSE IF items[k][1] \notin ActionConfigs
    THEN change_state_of(o, items, k + 1)
    ELSE change_state_of(
             changed_entry(init_state(o, items[k][1]), items[k][1],
                           IF items[k][2] = "local" THEN "module"
                           ELSE items[k][2]),
             items, k + 1)

\* sorted(change_state.items(), key=cmp_to_key(change_to_remote_first)):
\* an entry with "to_remote" compares greater than one without, two of a
\* kind compare equal, and the sort is stable.
to_remote(item) == Contains(item[2], "to_remote")
not_to_remote(item) == ~to_remote(item)

change_to_remote_first(items) ==
    SelectSeq(items, not_to_remote) \o SelectSeq(items, to_remote)

_get_action_change(o, new_action_state) ==
    LET o1 == change_state_of([o EXCEPT !.change_state = <<>>],
                              new_action_state, 1)
    IN  [o1 EXCEPT !.change_state = change_to_remote_first(@)]

\* apply_actions_change: one entry of the copy of actions_change.
load_change(o, name, change_type) ==
    IF change_type \in {"to_local", "_to_local", "_to_module", "to_module"}
    THEN load_action_module(o, name, FALSE)
    ELSE IF change_type = "to_remote"
    THEN load_action_remote(o, name, FALSE)
    ELSE IF change_type \in {"local_to_remote", "module_to_remote"}
    THEN load_action_remote(o, name, TRUE)
    ELSE IF change_type \in {"remote_to_local", "remote_to_module"}
    THEN load_action_module(o, name, FALSE)
    ELSE [o EXCEPT !.ret = FALSE]

\* del self.actions_change[name]; summarize_action_calls() clears
\* actions_calls when the history is active.
change_applied(o, name) ==
    LET other(item) == item[1] # name
    IN  IF ~o.ret THEN o
        ELSE [o EXCEPT !.actions_change = SelectSeq(@, other),
                       !.actions_calls =
                           IF actions_history.active THEN {} ELSE @,
                       !.loaded = @ \cup {name}]

RECURSIVE apply_changes(_, _, _)
apply_changes(o, changes, k) ==
    IF k > Len(changes) THEN o
    ELSE apply_changes(
             change_applied(load_change(o, changes[k][1], changes[k][2]),
                            changes[k][1]),
             changes, k + 1)

apply_actions_change(o) ==
    apply_changes([o EXCEPT !.applied = TRUE, !.changes = o.actions_change,
                            !.before = [n \in DOMAIN o.actions_state |->
                                           o.actions_state[n].mode]],
                  o.actions_change, 1)

\* policy_params.get("jaseci_runtime_mem", 300), policy_params.get("node_mem",
\* 999 * 1024), and action_configs[act]["local_mem_requirement"].
JaseciRuntimeMem == 300
NodeMem == 999 * 1024
LocalMemRequirement == 100

\* _init_evalution_policy: the configurations of one more action; a
\* configuration is its items in order, "local_mem" first.
\* c["local_mem"] < node_mem * NODE_MEM_THRESHOLD, the threshold being 0.8
fits(con) == 10 * (con[1][2] + LocalMemRequirement) < 8 * NodeMem

as_local(con, act) ==
    Append([con EXCEPT ![1][2] = @ + LocalMemRequirement], <<act, "local">>)

RECURSIVE new_configs(_, _, _)
new_configs(all_configs, act, k) ==
    IF k > Len(all_configs) THEN <<>>
    ELSE (IF fits(all_configs[k]) THEN <<as_local(all_configs[k], act)>>
          ELSE <<>>)
         \o <<Append(all_configs[k], <<act, "remote">>)>>
         \o new_configs(all_configs, act, k + 1)

RECURSIVE all_configs_of(_, _)
all_configs_of(actions, k) ==
    IF k = 0 THEN << << <<"local_mem", JaseciRuntimeMem>> >> >>
    ELSE new_configs(all_configs_of(actions, k - 1), actions[k], 1)

get_config_distance(config1, config2) ==
    Cardinality({i \in 1..Len(config1) : config1[i] # config2[i]})

\* The next configuration to append: the first of those not yet sorted with
\* the least distance to a sorted one.
min_config(all_configs, sorted) ==
    LET rest == {i \in 1..Len(all_configs) :
                    \A j \in 1..Len(sorted) : sorted[j] # all_configs[i]}
        distance(i) ==
            Min({get_config_distance(all_configs[i], sorted[j]) :
                    j \in 1..Len(sorted)})
    IN  all_configs[CHOOSE i \in rest :
                        \A j \in rest :
                            \/ distance(i) < distance(j)
                            \/ distance(i) = distance(j) /\ i <= j]

RECURSIVE sorted_configurations(_, _)
sorted_configurations(all_configs, sorted) ==
    IF Len(sorted) >= Len(all_configs) THEN sorted
    ELSE sorted_configurations(
             all_configs, Append(sorted, min_config(all_configs, sorted)))

_init_evalution_policy(o) ==
    LET actions == get_active_actions(o)
    IN  [o EXCEPT !.policy_state.remain_configs =
            sorted_configurations(
                all_configs_of(actions, Len(actions)),
                <<all_configs_of(actions, Len(actions))[1]>>)]

\* _get_walker_latency: the average of the walker runs recorded, 0.0 when
\* there is none.
_get_walker_latency(o) ==
    IF o.benchmark.requests = <<>> THEN 0 ELSE o.benchmark.requests[1]

\* list[a:b] and sum(list)
slice(list, a, b) ==
    LET at(i) == IF i < 0 THEN Max({0, Len(list) + i})
                 ELSE Min({i, Len(list)})
    IN  SubSeq(list, at(a) + 1, at(b))

RECURSIVE sum(_)
sum(list) == IF list = <<>> THEN 0 ELSE Head(list) + sum(Tail(list))

abs(x) == IF x < 0 THEN 0 - x ELSE x

\* _check_phase_change
_check_phase_change(prev_avg_walker_lat, prev_actions, called) ==
    LET curr_start_window == Len(prev_avg_walker_lat) - WINDOW_SIZE
        prev_start_window == Len(prev_avg_walker_lat) - (WINDOW_SIZE + 1)
        lat_change_pct ==
            abs(sum(slice(prev_avg_walker_lat, prev_start_window,
                          prev_start_window + WINDOW_SIZE))
                - sum(slice(prev_avg_walker_lat, curr_start_window,
                            curr_start_window + WINDOW_SIZE)))
    IN  lat_change_pct > THRESHOLD \/ prev_actions # called

\* The latencies _check_phase_change can still read: the last WINDOW_SIZE + 1.
window(list) ==
    IF Len(list) <= WINDOW_SIZE + 1 THEN list
    ELSE SubSeq(list, Len(list) - WINDOW_SIZE, Len(list))

\* policy_state["cur_phase"] += self.jsorc_interval; the sum is kept up to
\* eval_phase, the value it is compared with.
interval_added(o) ==
    [o EXCEPT !.policy_state.cur_phase = Min({@ + JsorcInterval, EvalPhase})]

\* The start of an evaluation period (cur_config is None), up to the test
\* of the change set.
switching(o) ==
    IF o.actions_change = <<>> THEN o
    ELSE [o EXCEPT !.policy_state.phase = "eval_switching",
                   !.benchmark.active = FALSE]

first_config(o) ==
    [o EXCEPT !.policy_state.cur_config = Head(o.policy_state.remain_configs),
              !.policy_state.remain_configs = Tail(@),
              !.policy_state.cur_phase = 0,
              !.benchmark = [active |-> TRUE, requests |-> <<>>]]

\* self.actions_change = self._get_action_change(config)
changes_for(o, config) ==
    LET o1 == _get_action_change(o, config)
    IN  [o1 EXCEPT !.actions_change = o1.change_state]

\* The step in eval_switching: all changes have been applied.
switched(o) ==
    IF o.policy_state.phase # "eval_switching" \/ o.actions_change # <<>>
    THEN o
    ELSE [o EXCEPT !.policy_state.phase = "eval",
                   !.policy_state.cur_phase = 0,
                   !.benchmark = [active |-> TRUE, requests |-> <<>>]]

\* _actionpolicy_evaluation, up to the evaluation of the last configuration:
\* no walker runs while the last configuration is evaluated (WalkerRun), so
\* that period does not end ("No walkers were executed") and the policy
\* never is in the perf phase.  prev_best_config, which is read only when
\* the last period ends, is left out, and so are the eval_phase and
\* perf_phase entries, which keep their values.
evaluation_state(o) ==
    IF o.policy_state.phase # "None" THEN o
    ELSE [o EXCEPT !.policy_state =
             [phase |-> "eval", cur_config |-> <<>>, remain_configs |-> <<>>,
              past_configs |-> <<>>, cur_phase |-> 0]]

\* if len(self.actions_change) > 0: ...; self.apply_actions_change()
switching_applied(o) ==
    IF o.actions_change = <<>> THEN o ELSE apply_actions_change(switching(o))

\* The evaluation period of cur_config is over and walkers have run.
evaluated(o) ==
    [o EXCEPT !.policy_state.past_configs =
                  Append(@, Append(o.policy_state.cur_config,
                                   <<"avg_walker_lat",
                                     _get_walker_latency(o)>>))]

\* The evaluation period of cur_config is over, walkers have run and
\* configurations remain.
evaluation_next_config(o) ==
    LET next_config == Head(o.policy_state.remain_configs)
    IN  switching_applied(
            [changes_for(o, next_config)
                EXCEPT !.policy_state.remain_configs = Tail(@),
                       !.policy_state.cur_config = next_config,
                       !.policy_state.cur_phase = 0,
                       !.benchmark.requests = <<>>])

evaluation_eval(o) ==
    IF o.policy_state.phase # "eval" THEN o
    ELSE IF o.policy_state.cur_config = <<>>
    THEN LET o1 == first_config(_init_evalution_policy(o))
         IN  switching_applied(changes_for(o1, o1.policy_state.cur_config))
    ELSE IF o.policy_state.cur_phase < EvalPhase THEN o
    ELSE IF o.benchmark.requests = <<>> THEN o
    ELSE evaluation_next_config(evaluated(o))

_actionpolicy_evaluation(o) ==
    switched(evaluation_eval(interval_added(evaluation_state(o))))

\* _actionpolicy_auto; prev_best_config and action_utilz, which it only
\* writes, are left out.
auto_state(o) ==
    IF o.policy_state.phase # "None" THEN o
    ELSE [o EXCEPT !.policy_state =
             [phase |-> "eval", cur_config |-> <<>>, remain_configs |-> <<>>,
              past_configs |-> <<>>, cur_phase |-> 0, prev_actions |-> {},
              eval_complete |-> FALSE, prev_avg_walker_lat |-> <<>>,
              call_counter |-> 0]]

\* The performance phase ("pref"): the latency is appended (twice during
\* the first WINDOW_SIZE calls) and the change of phase is only logged.
auto_pref(o) ==
    LET lat == _get_walker_latency(o)
        lats == o.policy_state.prev_avg_walker_lat
                \o (IF o.policy_state.call_counter < WINDOW_SIZE
                    THEN <<lat, lat>> ELSE <<lat>>)
    IN  [o EXCEPT !.policy_state.call_counter =
                      IF @ < WINDOW_SIZE THEN @ + 1 ELSE @,
                  !.policy_state.prev_avg_walker_lat = window(lats),
                  !.policy_state.prev_actions = o.actions_calls,
                  !.changed = _check_phase_change(
                                  lats, o.policy_state.prev_actions,
                                  o.actions_calls)]

\* min(past_configs, key=lambda x: x["avg_walker_lat"])
best_config(past_configs) ==
    LET lat(i) == past_configs[i][Len(past_configs[i])][2]
    IN  past_configs[CHOOSE i \in 1..Len(past_configs) :
                         \A j \in 1..Len(past_configs) :
                             \/ lat(i) < lat(j)
                             \/ lat(i) = lat(j) /\ i <= j]

auto_perform(o) ==
    LET best == best_config(o.policy_state.past_configs)
    IN  [changes_for(o, best)
            EXCEPT !.policy_state.phase = "pref",
                   !.policy_state.cur_config = <<>>,
                   !.policy_state.past_configs = <<>>,
                   !.policy_state.cur_phase = 0,
                   !.policy_state.eval_complete = TRUE,
                   !.benchmark = [active |-> TRUE, requests |-> <<>>]]

auto_next_config(o) ==
    LET next_config == Head(o.policy_state.remain_configs)
        o1 == [changes_for(o, next_config)
                  EXCEPT !.policy_state.remain_configs = Tail(@),
                         !.policy_state.cur_config = next_config,
                         !.policy_state.cur_phase = 0,
                         !.benchmark.requests = <<>>]
    IN  IF o1.actions_change # <<>> THEN switching(o1)
        ELSE [o1 EXCEPT !.policy_state.phase = "eval",
                        !.benchmark.active = TRUE]

auto_eval(o) ==
    IF o.policy_state.cur_config = <<>>
    THEN LET o1 == first_config(_init_evalution_policy(o))
         IN  switching(changes_for(o1, o1.policy_state.cur_config))
    ELSE IF o.policy_state.cur_phase < EvalPhase THEN o
    ELSE IF o.benchmark.requests = <<>> THEN o
    ELSE IF o.policy_state.remain_configs = <<>>
    THEN auto_perform(evaluated(o))
    ELSE auto_next_config(evaluated(o))

auto_phase(o) ==
    IF o.policy_state.phase = "pref" THEN auto_pref(o)
    ELSE IF o.policy_state.phase = "eval" THEN auto_eval(o)
    ELSE switched(o)

_actionpolicy_auto(o) == auto_phase(interval_added(auto_state(o)))

\* What the call before left behind.
NoCall == [op |-> "None"]
NoApply == [applied |-> FALSE]

OptCommit(o) ==
    /\ actions_state' = o.actions_state
    /\ actions_change' = o.actions_change
    /\ actions_calls' = o.actions_calls
    /\ benchmark' = o.benchmark
    /\ policy_state' = o.policy_state
    /\ live_actions' = o.live_actions
    /\ kube' = o.kube
    /\ applied' = IF o.applied
                  THEN [applied |-> TRUE, changes |-> o.changes,
                        loaded |-> o.loaded, before |-> o.before]
                  ELSE NoApply
    /\ UNCHANGED <<policy, actions_history, modules>>
    /\ UNCHANGED compiler

\* set_action_policy(policy_name)
set_action_policy ==
    /\ \E policy_name \in POLICIES : policy' = policy_name
    /\ policy_state' = NoPolicyState
    /\ returned' = NoCall
    /\ applied' = NoApply
    /\ UNCHANGED <<actions_state, actions_change, actions_calls,
                   actions_history, benchmark, live_actions, kube, modules>>
    /\ UNCHANGED compiler

\* run(jsorc_interval)
run_default ==
    /\ policy = "Default"
    /\ returned' = [op |-> "run", changed |-> FALSE]
    /\ OptCommit(O0)

run_evaluation ==
    /\ policy = "Evaluation"
    /\ returned' = [op |-> "run", changed |-> FALSE]
    /\ OptCommit(_actionpolicy_evaluation(O0))

run_auto ==
    /\ policy = "Auto"
    /\ returned' = [op |-> "run", changed |-> _actionpolicy_auto(O0).changed]
    /\ OptCommit(_actionpolicy_auto(O0))

\* The state of an action before a call, None as a state never loaded.
StateOf(name) ==
    IF name \in DOMAIN actions_state THEN actions_state[name] ELSE NoState

\* The actions are loaded and unloaded by hand under the Default policy,
\* which "does not manage action automatically".
\* load_action_remote(name, unload_existing), called from outside.
LoadActionRemote ==
    /\ policy = "Default"
    /\ \E name \in ActionConfigs, unload_existing \in BOOLEAN :
        \* unload_existing is passed for an action that has a module to unload
        /\ unload_existing => StateOf(name).module
        /\ LET o == load_action_remote(O0, name, unload_existing)
           IN  /\ returned' =
                      [op |-> "load_action_remote", name |-> name,
                       ret |-> o.ret, spawned |-> o.spawned,
                       checked |-> o.checked, before |-> StateOf(name),
                       live |-> live_actions[name]]
               /\ OptCommit(o)

\* load_action_module(name, unload_existing), called from outside.
LoadActionModule ==
    /\ policy = "Default"
    /\ \E name \in ActionConfigs, unload_existing \in BOOLEAN :
        LET o == load_action_module(O0, name, unload_existing)
        IN  /\ returned' = [op |-> "load_action_module", name |-> name,
                            ret |-> o.ret]
            /\ OptCommit(o)

\* unload_action_auto(name), called from outside.
UnloadActionAuto ==
    /\ policy = "Default"
    /\ \E name \in ActionConfigs :
        LET o == unload_action_auto(O0, name)
        IN  /\ returned' = [op |-> "unload_action_auto", name |-> name,
                            ret |-> o.ret]
            /\ OptCommit(o)

\* apply_actions_change(), called from outside.
ApplyActionsChange ==
    /\ actions_change # <<>>
    /\ returned' = [op |-> "apply_actions_change"]
    /\ OptCommit(apply_actions_change(O0))

\* The desired states _get_action_change is called with from outside: a
\* mode for each of some names, the names in any order.
DesiredNames == ActionConfigs \cup {Unconfigured}
DesiredModes == {"local", "module", "remote"}
DesiredStates ==
    UNION {{d \in [1..Cardinality(names) -> names \X DesiredModes] :
               {d[i][1] : i \in 1..Cardinality(names)} = names} :
              names \in SUBSET DesiredNames \ {{}}}

GetActionChange ==
    \E new_action_state \in DesiredStates :
        LET o == _get_action_change(O0, new_action_state)
        IN  /\ returned' = [op |-> "_get_action_change",
                            new_action_state |-> new_action_state,
                            ret |-> o.change_state,
                            before |-> [n \in ActionConfigs |->
                                           StateOf(n).mode]]
            /\ OptCommit(o)

\* The environment: the interval after which JSORC calls run again passes; a
\* service that was spawned comes up; a walker runs and the benchmark
\* records its latency; an action is called.
IntervalPasses ==
    /\ returned.op = "run"
    /\ returned' = NoCall
    /\ applied' = NoApply
    /\ UNCHANGED <<policy, policy_state, actions_state, actions_change,
                   actions_calls, actions_history, benchmark, live_actions,
                   kube, modules>>
    /\ UNCHANGED compiler

PodUp ==
    /\ \E name \in ActionConfigs :
          /\ kube[name] = "starting"
          /\ kube' = [kube EXCEPT ![name] = "up"]
    /\ returned' = NoCall
    /\ applied' = NoApply
    /\ UNCHANGED <<policy, policy_state, actions_state, actions_change,
                   actions_calls, actions_history, benchmark, live_actions,
                   modules>>
    /\ UNCHANGED compiler

Latencies == {3}

WalkerRun ==
    /\ policy = "Evaluation" =>
           /\ policy_state.phase = "eval"
           /\ policy_state.remain_configs # <<>>
    /\ benchmark.active
    /\ \E latency \in Latencies :
          benchmark' = [benchmark EXCEPT !.requests = <<latency>>]
    /\ returned' = NoCall
    /\ applied' = NoApply
    /\ UNCHANGED <<policy, policy_state, actions_state, actions_change,
                   actions_calls, actions_history, live_actions, kube,
                   modules>>
    /\ UNCHANGED compiler

ActionCalled ==
    /\ \E name \in {ActionOrder[1]} :
          actions_calls' = actions_calls \cup {name}
    /\ returned' = NoCall
    /\ applied' = NoApply
    /\ UNCHANGED <<policy, policy_state, actions_state, actions_change,
                   actions_history, benchmark, live_actions, kube, modules>>
    /\ UNCHANGED compiler

\* ActionsOptimizer(): nothing is loaded, the policy is Default.
OptimizerInit ==
    /\ policy = "Default"
    /\ policy_state = NoPolicyState
    /\ actions_state = [n \in {} |-> NoState]
    /\ actions_change = <<>>
    /\ actions_calls = {}
    /\ benchmark = [active |-> FALSE, requests |-> <<>>]
    /\ live_actions =
           [n \in ActionConfigs |-> [module |-> FALSE, remote |-> FALSE]]
    /\ kube = [n \in ActionConfigs |-> "absent"]
    /\ returned = NoCall
    /\ applied = NoApply

-----------------------------------------------------------------------------
(* The driver: the scope-build pass runs over the module; then the def/use  *)
(* pass runs over it, or the scope-build pass is run again over a subtree;  *)
(* the formatter runs over the compiled module or over one of its subtrees. *)

Root == 1

\* The inner nodes a scope-build run may be started at.
SubStarts ==
    {n \in Nodes : Parent(n) # 0 /\ Kind(n) \in {"Module", "Architype", "IfStmt"}}

\* before_pass: cur_sym_tab = []
StartSubRun ==
    /\ pass = "between"
    /\ subruns < MaxSubRuns
    /\ \E n \in SubStarts :
          /\ start' = n
          /\ cur' = n
    /\ phase' = "enter"
    /\ pass' = "symtab"
    /\ cur_sym_tab' = <<>>
    /\ subruns' = subruns + 1
    /\ last' = <<"none", "none", 0>>
    /\ UNCHANGED <<optimizer, parsed_from, tree, ir, scopes, syms, sym_tab, sym, errors, from_walker,
                   del_ctx, gen, indent_level, comments, pre>>

\* The def/use pass follows the scope-build pass over the module.
StartDefUse ==
    /\ pass = "between"
    /\ subruns = 0
    /\ pass' = "defuse"
    /\ start' = Root
    /\ cur' = Root
    /\ phase' = "enter"
    /\ last' = <<"none", "none", 0>>
    /\ UNCHANGED <<optimizer, parsed_from, tree, ir, cur_sym_tab, scopes, syms, sym_tab, sym, errors,
                   from_walker, del_ctx, gen, indent_level, comments, subruns,
                   pre>>

\* before_pass: the formatter starts at the module, or at a subtree that is
\* formatted in isolation.
StartFormat ==
    /\ pass = "done"
    /\ \A m \in Nodes : Kind(m) \in FormatKinds
    /\ \E n \in Nodes :
          /\ start' = n
          /\ cur' = n
    /\ pass' = "format"
    /\ phase' = "enter"
    /\ comments' = {}
    /\ indent_level' = 0
    /\ last' = <<"none", "none", 0>>
    /\ UNCHANGED <<optimizer, parsed_from, tree, ir, cur_sym_tab, scopes, syms, sym_tab, sym, errors,
                   from_walker, del_ctx, gen, subruns, pre>>

\* The tree tr is what the parser makes of the text: its terminals are the
\* words of the text in order, each on the line the text has it on, a comment
\* is inline when it shares its line with the terminal before it, and an inner
\* node spans the lines of its kids.
ParseOf(tr, text) ==
    LET terms == seq_of({n \in 1..Len(tr) : tr[n].k \in TokenKinds})
        words == seq_of({i \in 1..Len(text) : text[i] \notin {" ", "\n"}})
        line(i) == 1 + Cardinality({j \in 1..(i - 1) : text[j] = "\n"})
        kids(n) == {m \in 1..Len(tr) : tr[m].p = n}
    IN  /\ Len(terms) = Len(words)
        /\ \A j \in 1..Len(terms) :
              /\ tr[terms[j]].nm = text[words[j]]
              /\ tr[terms[j]].l1 = line(words[j])
              /\ tr[terms[j]].l2 = line(words[j])
              /\ tr[terms[j]].k = "CommentToken" =>
                    (tr[terms[j]].r = "inline" <=>
                        (j > 1 /\ line(words[j - 1]) = line(words[j])))
        /\ \A n \in 1..Len(tr) :
              kids(n) # {} =>
                  /\ tr[n].l1 = Min({tr[m].l1 : m \in kids(n)})
                  /\ tr[n].l2 = Max({tr[m].l2 : m \in kids(n)})

\* The formatted module is written out and compiled again: the compiler
\* starts over on the tree the parser makes of the formatter's output.
Reparse ==
    /\ pass = "formatted"
    /\ start = Root
    /\ \E t \in 1..Len(Trees) :
          /\ ParseOf(Trees[t], gen[Root])
          /\ tree' = t
          /\ ir' = Trees[t]
          /\ sym_tab' = [d \in (Nodes \cup Stubs)' |-> 0]
          /\ sym' = [d \in (Nodes \cup Stubs)' |-> 0]
          /\ gen' = [n \in Nodes' |-> <<>>]
          /\ pre' = [n \in Nodes' |-> <<>>]
    /\ parsed_from' = gen[Root]
    /\ pass' = "symtab"
    /\ start' = Root
    /\ cur' = Root
    /\ phase' = "enter"
    /\ cur_sym_tab' = <<>>
    /\ scopes' = <<>>
    /\ syms' = <<>>
    /\ errors' = <<>>
    /\ from_walker' = {}
    /\ del_ctx' = {}
    /\ indent_level' = 0
    /\ comments' = {}
    /\ subruns' = 0
    /\ last' = <<"none", "none", 0>>
    /\ UNCHANGED optimizer

\* The compiler before its first pass.
CompilerInit ==
    /\ tree \in 1..Len(Trees)
    /\ ir = Trees[tree]
    /\ pass = "symtab"
    /\ start = Root
    /\ cur = Root
    /\ phase = "enter"
    /\ cur_sym_tab = <<>>
    /\ scopes = <<>>
    /\ syms = <<>>
    /\ sym_tab = [d \in Nodes \cup Stubs |-> 0]
    /\ sym = [d \in Nodes \cup Stubs |-> 0]
    /\ errors = <<>>
    /\ from_walker = {}
    /\ del_ctx = {}
    /\ gen = [n \in Nodes |-> <<>>]
    /\ indent_level = 0
    /\ comments = {}
    /\ subruns = 0
    /\ pre = [n \in Nodes |-> <<>>]
    /\ parsed_from = <<>>
    /\ last = <<"none", "none", 0>>

Init ==
    /\ CompilerInit
    /\ OptimizerInit
    /\ actions_history = [active |-> FALSE]
    /\ modules = [n \in ActionConfigs |-> TRUE]

SymTabNext ==
    \/ SymTab_enter_module
    \/ SymTab_enter_module_code
    \/ SymTab_enter_architype
    \/ SymTab_enter_enum
    \/ SymTab_enter_ability
    \/ SymTab_enter_ability_def
    \/ SymTab_enter_test
    \/ SymTab_enter_block
    \/ SymTab_enter_sync
    \/ SymTab_exit_pop
    \/ SymTab_exit_global_vars
    \/ SymTab_exit_import
    \/ SymTab_exit_module_path
    \/ SymTab_exit_none

DefUseNext ==
    \/ DefUse_enter_architype
    \/ DefUse_enter_enum
    \/ DefUse_enter_use
    \/ DefUse_enter_param_var
    \/ DefUse_enter_has_var
    \/ DefUse_enter_assignment
    \/ DefUse_enter_inner_compr
    \/ DefUse_enter_atom_trailer
    \/ DefUse_enter_name
    \/ DefUse_enter_in_for_stmt
    \/ DefUse_enter_delete_stmt
    \/ DefUse_enter_expr_as_item
    \/ DefUse_enter_none
    \/ DefUse_exit_none

FormatNext ==
    \/ Format_enter_module
    \/ Format_enter_node
    \/ Format_exit_module
    \/ Format_exit_module_code
    \/ Format_exit_sub_node_list
    \/ Format_exit_binary_expr
    \/ Format_exit_expr_stmt
    \/ Format_exit_architype
    \/ Format_exit_typed_ctx_block
    \/ Format_exit_py_inline_code
    \/ Format_exit_token
    \/ Format_exit_name
    \/ Format_exit_dict_val
    \/ Format_exit_k_v_pair

Next ==
    \/ SymTabNext
    \/ StartSubRun
    \/ StartDefUse
    \/ DefUseNext
    \/ StartFormat
    \/ FormatNext
    \/ Reparse

Spec == Init /\ [][Next]_vars

\* The optimizer on its own, next to a compiler that is not run: the methods
\* are called in any order, the services come up, walkers run.
OptInit ==
    /\ CompilerInit
    /\ tree = 1
    /\ OptimizerInit
    /\ actions_history = [active |-> TRUE]
    /\ modules \in {[n \in ActionConfigs |-> n # missing] :
                       missing \in {ActionOrder[2], Unconfigured}}

OptNext ==
    \/ set_action_policy
    \/ run_default
    \/ run_evaluation
    \/ run_auto
    \/ LoadActionRemote
    \/ LoadActionModule
    \/ UnloadActionAuto
    \/ ApplyActionsChange
    \/ IntervalPasses
    \/ PodUp
    \/ WalkerRun
    \/ ActionCalled

OptSpec == OptInit /\ [][OptNext]_vars

\* JSORC invokes run "regularly at a configured interval": again and again
\* a call of run has just returned and the interval passes; and a service
\* that was created comes up.
RunCalled == returned.op = "run"
OptFairSpec ==
    OptSpec /\ WF_vars(IntervalPasses) /\ WF_vars(PodUp) /\ []<>RunCalled

\* _get_action_change on its own: it is called with any desired states on
\* an optimizer whose actions are each unknown, unloaded, loaded as a module
\* or loaded as a remote service.
UnloadedState == NoState
ModuleState ==
    [mode |-> "module", module |-> TRUE, url |-> "None", status |-> "None"]
RemoteState ==
    [mode |-> "remote", module |-> FALSE, url |-> "url", status |-> "READY"]

ChangeInit ==
    /\ CompilerInit
    /\ tree = 1
    /\ policy = "Default"
    /\ policy_state = NoPolicyState
    /\ actions_state \in
           UNION {[known -> {UnloadedState, ModuleState, RemoteState}] :
                     known \in SUBSET ActionConfigs}
    /\ actions_change = <<>>
    /\ actions_calls = {}
    /\ benchmark = [active |-> FALSE, requests |-> <<>>]
    /\ live_actions =
           [n \in ActionConfigs |->
               [module |-> StateOf(n).module,
                remote |-> StateOf(n).mode = "remote"]]
    /\ kube = [n \in ActionConfigs |->
                  IF StateOf(n).url = "None" THEN "absent" ELSE "up"]
    /\ returned = NoCall
    /\ applied = NoApply
    /\ actions_history = [active |-> TRUE]
    /\ modules = [n \in ActionConfigs |-> TRUE]

ChangeNext == GetActionChange

ChangeSpec == ChangeInit /\ [][ChangeNext]_vars

-----------------------------------------------------------------------------
(* Vocabulary of the properties.                                            *)

Range(f) == {f[k] : k \in DOMAIN f}

\* The scope a node introduced in the latest scope-build run over it.
OwnedLatest(a) ==
    LET S == {i \in 1..Len(scopes) : scopes[i].owner = a}
    IN  IF S = {} THEN 0 ELSE Max(S)

\* A name that enter_name looks up on its own.
PlainUse(u) ==
    /\ Kind(u) = "Name"
    /\ ~(Parent(u) # 0 /\ Kind(Parent(u)) = "AtomTrailer")

\* The scope and its ancestors, nearest first.
RECURSIVE ScopePath(_)
ScopePath(S) == IF S = 0 THEN <<>> ELSE <<S>> \o ScopePath(scopes[S].parent)

\* The symbol of the nearest scope on the path that declares the name.
FirstMatch(S, nm) ==
    LET path == ScopePath(S)
        hits == {k \in 1..Len(path) :
                    lookup_local(Heap, path[k], nm, Len(scopes)) # 0}
    IN  IF hits = {} THEN 0
        ELSE lookup_local(Heap, path[Min(hits)], nm, Len(scopes))

\* The nearest enclosing node of one of the kinds, 0 if none.
RECURSIVE Enclosing(_, _)
Enclosing(n, kinds) ==
    IF Parent(n) = 0 THEN 0
    ELSE IF Kind(Parent(n)) \in kinds THEN Parent(n)
    ELSE Enclosing(Parent(n), kinds)

MethodOf(p) == Enclosing(p, {"Ability", "AbilityDef", "LambdaExpr"})

\* No scope from the use's up to (not including) scope S declares the name.
NotRedeclaredBelow(u, S) ==
    \A k \in 1..Len(ScopePath(sym_tab[u])) :
        LET path == ScopePath(sym_tab[u])
        IN  (\A j \in 1..k : path[j] # S)
                => own_entry(Heap, path[k], SymName(u)) = 0

\* The uses of a parameter's name inside the parameter's method.
UsesInMethod(p) ==
    {u \in Nodes : /\ PlainUse(u)
                   /\ SymName(u) = SymName(p)
                   /\ MethodOf(p) # 0
                   /\ InSubtree(u, MethodOf(p))
                   /\ NotRedeclaredBelow(u, OwnedLatest(MethodOf(p)))}

ResolvesToParam(u, p) ==
    /\ sym[u] # 0
    /\ p \in Range(syms[sym[u]].defn)
    /\ syms[sym[u]].tab = OwnedLatest(MethodOf(p))

-----------------------------------------------------------------------------
-----------------------------------------------------------------------------
\* The declarations the scope-build pass inserts: type, enum and ability
\* names, and the targets of global variable statements.
HoistedDecl(d) ==
    \/ Kind(d) \in DeclKinds
    \/ /\ Enclosing(d, {"GlobalVars"}) # 0
       /\ d \in Range(global_targets(Enclosing(d, {"GlobalVars"})))

\* The scope a hoisted declaration's name is inserted in.
HoistedInto(d) ==
    IF Kind(d) \in DeclKinds
    THEN (IF OwnedLatest(d) = 0 THEN 0 ELSE scopes[OwnedLatest(d)].parent)
    ELSE sym_tab[d]

\* C2 (as stated): after both passes, a use of a name in a scope that
\* declares the name anywhere (also by a later assignment) resolves to the
\* declared symbol.
C2_Original ==
    pass = "done" =>
        \A u \in Nodes :
            (PlainUse(u) /\ own_entry(Heap, sym_tab[u], SymName(u)) # 0)
                => sym[u] = own_entry(Heap, sym_tab[u], SymName(u))

\* C2 (amended): after both passes, a use of a name in a scope resolves to
\* the scope's symbol for it when the name is declared there by the
\* scope-build pass (a type, enum, ability or global variable, wherever it
\* stands in the source), or by a def/use definition that is entered before
\* the use.
C2_Amended ==
    pass = "done" =>
        \A u \in Nodes : PlainUse(u) =>
            /\ \A d \in Nodes :
                  (/\ HoistedDecl(d)
                   /\ SymName(d) = SymName(u)
                   /\ HoistedInto(d) = sym_tab[u])
                  => /\ sym[u] # 0
                     /\ sym[u] = own_entry(Heap, sym_tab[u], SymName(u))
            /\ \A i \in 1..Len(syms) :
                  (/\ syms[i].tab = sym_tab[u]
                   /\ syms[i].name = SymName(u)
                   /\ \E k \in 1..Len(syms[i].defn) : syms[i].defn[k] <= u)
                  => sym[u] = i

\* A finished run with a use that stands before every declaration of its
\* name in its own scope, and is resolved to that scope's symbol.
C2_Witness ==
    /\ pass = "done"
    /\ \E u \in Nodes :
          /\ PlainUse(u)
          /\ sym[u] # 0
          /\ syms[sym[u]].tab = sym_tab[u]
          /\ \A k \in 1..Len(syms[sym[u]].defn) : syms[sym[u]].defn[k] > u

-----------------------------------------------------------------------------
\* The define calls made by the handler that ran last, each as
\* <<declaring node, scope, label>>.
LastDefines ==
    LET n == last[3]
    IN  IF pass \in {"crashed", "aborted"} \/ n = 0 THEN {}
        ELSE IF last[1] = "symtab" /\ last[2] = "enter"
        THEN (IF Kind(n) \in {"Architype", "Enum", "Ability", "AbilityDef"}
              THEN {<<n, scopes[sym_tab[n]].parent,
                      CASE Kind(n) = "Architype" -> "architype"
                        [] Kind(n) = "Enum" -> "enum"
                        [] Kind(n) = "Ability" -> "ability"
                        [] OTHER -> "ability def">>}
              ELSE {})
        ELSE IF last[1] = "symtab" /\ last[2] = "exit"
        THEN (IF Kind(n) = "GlobalVars"
              THEN {<<t, sym_tab[t], "global var">> :
                        t \in {t \in Range(global_targets(n)) :
                                  Kind(t) = "Name"}}
              ELSE {})
        ELSE IF last[1] = "defuse" /\ last[2] = "enter"
        THEN (IF Kind(n) = "ParamVar" THEN {<<n, sym_tab[n], NoLabel>>}
              ELSE IF Kind(n) = "HasVar" /\ Enclosing(n, {"ArchHas"}) # 0
              THEN {<<n, sym_tab[n], "has var">>}
              ELSE IF Kind(n) = "Assignment"
              THEN {<<t, sym_tab[t], NoLabel>> :
                        t \in {t \in Range(target_items(n)) : Kind(t) = "Name"}}
              ELSE {})
        ELSE {}

\* Each scope maps each identifier to one symbol.
UniqueNames ==
    \A i, j \in 1..Len(syms) :
        (syms[i].tab = syms[j].tab /\ syms[i].name = syms[j].name) => i = j

IsPrefix(a, b) == Len(a) <= Len(b) /\ SubSeq(b, 1, Len(a)) = a

\* A step keeps every entry, its declaration sites and its uses.  (It is
\* asked of the steps of a compilation; a compilation that starts over on
\* the formatted text has tables of its own.)
KeepsEntries ==
    \A i \in 1..Len(syms) :
        /\ i <= Len(syms')
        /\ syms'[i].name = syms[i].name
        /\ syms'[i].tab = syms[i].tab
        /\ IsPrefix(syms[i].defn, syms'[i].defn)
        /\ IsPrefix(syms[i].uses, syms'[i].uses)

Added(t) ==
    LET i == own_entry(Heap, t[2], SymName(t[1]))
    IN  i # 0 /\ t[1] \in Range(syms[i].defn)

Refused(t) ==
    LET i == own_entry(Heap, t[2], SymName(t[1]))
    IN  /\ i # 0
        /\ t[3] # NoLabel
        /\ syms[i].label # t[3]
        /\ t[1] \notin Range(syms[i].defn)
        /\ "DuplicateDefinition" \in Range(errors)

\* C3 (as stated): define never overwrites or duplicates an entry: each scope
\* maps each identifier to exactly one symbol, every step keeps the earlier
\* declaration sites and uses of every symbol, and EVERY define adds its
\* declaring node as a declaration site of the scope's symbol for the name.
C3_Original ==
    /\ [](UniqueNames /\ \A t \in LastDefines : Added(t))
    /\ [][pass # "formatted" => KeepsEntries]_vars

\* C3 (amended): define never overwrites or duplicates an entry: each scope
\* maps each identifier to exactly one symbol, every step keeps the earlier
\* declaration sites and uses of every symbol, and a define adds its
\* declaring node as a declaration site of the scope's symbol for the name,
\* unless it names a kind and the existing symbol is of another kind: then
\* it fails with DuplicateDefinition and the symbol is left as it was.
C3_Amended ==
    /\ [](UniqueNames /\ \A t \in LastDefines : Added(t) \/ Refused(t))
    /\ [][pass # "formatted" => KeepsEntries]_vars

\* A def/use define of a name its scope already has came last: the node is
\* the newest declaration site, after the earlier one, and the symbol has
\* kept the uses recorded before.
C3_Witness ==
    \E t \in LastDefines :
        LET i == own_entry(Heap, t[2], SymName(t[1]))
        IN  /\ i # 0
            /\ Len(syms[i].defn) >= 2
            /\ syms[i].defn[Len(syms[i].defn)] = t[1]
            /\ syms[i].defn[1] # t[1]
            /\ syms[i].uses # <<>>

-----------------------------------------------------------------------------
\* The nodes the def/use pass has entered (nodes are numbered in the order
\* the traversal enters them).
Entered(n) ==
    \/ pass = "done"
    \/ /\ pass = "defuse"
       /\ IF phase = "enter" THEN n < cur
          ELSE n <= Max({m \in Nodes : InSubtree(m, cur)})

\* The type declarations a type's header names as its bases, in header order.
BaseDecls(a) ==
    LET bs == base_classes(a)
        declOf(b) == {d \in Nodes : Kind(d) \in {"Architype", "Enum"}
                                    /\ SymName(d) = SymName(b)}
        found == {k \in 1..Len(bs) : declOf(bs[k]) # {}}
    IN  [k \in 1..Cardinality(found) |->
            Min(declOf(bs[CHOOSE j \in found :
                    Cardinality({x \in found : x <= j}) = k]))]

\* What override order asks a lookup of the name in the type to give: the
\* type's own symbol, else that of the earliest base in the header with one.
RECURSIVE Expected(_, _, _)
Expected(a, nm, fuel) ==
    LET own == own_entry(Heap, OwnedLatest(a), nm)
        bs == IF Entered(a) /\ fuel > 0 THEN BaseDecls(a) ELSE <<>>
        hits == {k \in 1..Len(bs) : Expected(bs[k], nm, fuel - 1) # 0}
    IN  IF own # 0 THEN own
        ELSE IF hits = {} THEN 0
        ELSE Expected(bs[Min(hits)], nm, fuel - 1)

AllNames == {SymName(n) : n \in Nodes} \ {""}

\* C4: once the def/use pass has entered a type with bases, a lookup of a
\* name in the type's scope gives the type's own symbol when the scope
\* defines the name directly (a method of the scope-build pass, or a field
\* the def/use pass inserted later), and otherwise the symbol of the
\* earliest base of the header that declares it.
C4_OverrideOrder ==
    \A b \in Nodes :
        (Kind(b) = "Architype" /\ Entered(b) /\ BaseDecls(b) # <<>>) =>
            \A nm \in AllNames :
                Expected(b, nm, Len(scopes)) # 0 =>
                    lookup(Heap, OwnedLatest(b), nm)
                        = Expected(b, nm, Len(scopes))

\* A finished run over a type with two bases: a field the type declares after
\* inheriting shadows the same field of its first base, a method it declares
\* shadows the bases' method, and a method both bases declare is found in the
\* first one.
C4_Witness ==
    /\ pass = "done"
    /\ \E b \in Nodes :
          /\ Kind(b) = "Architype"
          /\ Len(BaseDecls(b)) >= 2
          /\ \E f \in Nodes :
                /\ Kind(f) = "HasVar"
                /\ sym_tab[f] = OwnedLatest(b)
                /\ lookup(Heap, OwnedLatest(b), SymName(f)) = sym[f]
                /\ own_entry(Heap, OwnedLatest(BaseDecls(b)[1]), SymName(f)) # 0
          /\ \E nm \in AllNames :
                /\ own_entry(Heap, OwnedLatest(b), nm) = 0
                /\ own_entry(Heap, OwnedLatest(BaseDecls(b)[1]), nm) # 0
                /\ own_entry(Heap, OwnedLatest(BaseDecls(b)[2]), nm) # 0
                /\ lookup(Heap, OwnedLatest(b), nm)
                      = own_entry(Heap, OwnedLatest(BaseDecls(b)[1]), nm)

-----------------------------------------------------------------------------
\* The scope the declaration of a resolved segment exposes, 0 if none.
SegmentScope(d) ==
    IF sym[d] = 0 THEN 0 ELSE decl_scope(Heap, decl(Heap, sym[d]))

\* The chain whose enter_atom_trailer ran last.
LastChain ==
    IF last[1] = "defuse" /\ last[2] = "enter" /\ last[3] # 0
       /\ Kind(last[3]) = "AtomTrailer"
    THEN as_attr_list(last[3]) ELSE <<>>

ChainResolved(list) ==
    /\ list # <<>> =>
          sym[list[1]] = lookup(Heap, sym_tab[list[1]], SymName(list[1]))
    /\ \A k \in 2..Len(list) :
          IF SegmentScope(list[k - 1]) = 0
          THEN sym[list[k]] = 0
          ELSE sym[list[k]]
                  = lookup(Heap, SegmentScope(list[k - 1]), SymName(list[k]))
    /\ \A k \in 1..Len(list) :
          sym[list[k]] # 0 => list[k] \in Range(syms[sym[list[k]]].uses)

\* C5: enter_atom_trailer resolves the first segment of the chain by lexical
\* lookup and each later one inside the scope attached to the declaration of
\* the previous one; where that declaration has no scope, the segments from
\* there on stay unresolved; the handler adds nothing to the error list, and
\* the traversal goes on to the next node.
C5_PartialChain ==
    /\ [](ChainResolved(LastChain))
    /\ [][DuAt({"AtomTrailer"}) =>
            /\ errors' = errors
            /\ pass' = "defuse"
            /\ cur' = AfterEnter(cur)[1]]_vars

\* The chain entered last has a resolved first segment whose declaration has
\* no scope and an unresolved second one, and the pass is still running.
C5_Witness ==
    /\ pass = "defuse"
    /\ Len(LastChain) = 2
    /\ sym[LastChain[1]] # 0
    /\ SegmentScope(LastChain[1]) = 0
    /\ sym[LastChain[2]] = 0
    /\ errors = <<>>

-----------------------------------------------------------------------------
\* The dotted chains that are targets of an assignment.
TargetChains ==
    {t \in Nodes :
        /\ Kind(t) = "AtomTrailer"
        /\ Parent(t) # 0 /\ Role(Parent(t)) = "target"
        /\ Kind(Parent(Parent(t))) = "Assignment"}

DefinedAt(d) == \E i \in 1..Len(syms) : d \in Range(syms[i].defn)
UsedAt(d) == \E i \in 1..Len(syms) : d \in Range(syms[i].uses)

\* C6: after the def/use pass, for an assignment to a dotted chain whose
\* owner resolved, the last segment is a declaration site of a symbol of the
\* scope owned by the previous segment and is not recorded as a use, and no
\* other segment is a declaration site.
C6_ChainDefine ==
    pass = "done" =>
        \A t \in TargetChains :
            LET list == as_attr_list(t)
                f == list[Len(list)]
                owner == SegmentScope(list[Len(list) - 1])
            IN  owner # 0 =>
                    /\ sym[f] # 0
                    /\ syms[sym[f]].tab = owner
                    /\ f \in Range(syms[sym[f]].defn)
                    /\ ~UsedAt(f)
                    /\ \A k \in 1..(Len(list) - 1) :
                          UsedAt(list[k]) /\ ~DefinedAt(list[k])

-----------------------------------------------------------------------------
\* The kinds whose handlers in SymTabBuildPass push and pop a scope.
PushingKinds ==
    {"Module", "Test", "Architype", "ArchDef", "Ability", "AbilityDef",
     "Enum", "EnumDef", "TypedCtxBlock", "IfStmt", "ElseIf", "ElseStmt",
     "TryStmt", "Except", "FinallyStmt", "IterForStmt", "InForStmt",
     "WhileStmt", "WithStmt", "LambdaExpr", "InnerCompr", "DictCompr",
     "MatchCase"}

\* The scope-introducing node whose exit handler ran last, 0 if none.
LastExited ==
    IF /\ last[1] = "symtab" /\ last[2] = "exit" /\ last[3] # 0
       /\ pass \notin {"crashed", "aborted"}
       /\ Kind(last[3]) \in PushingKinds
    THEN last[3] ELSE 0

ScopeBuildFinished == pass = "between"

\* C7 (as stated): for every scope-introducing node the stack after its exit
\* handler equals the stack just before its enter handler, and when the pass
\* finishes the stack is empty, whether the traversal started at a module
\* root or at a node that has a parent.
C7_Original ==
    /\ LastExited # 0 => cur_sym_tab = pre[LastExited]
    /\ ScopeBuildFinished => cur_sym_tab = <<>>

\* C7 (amended): for every scope-introducing node entered on a non-empty
\* stack, or having no parent, the stack after its exit handler equals the
\* stack just before its enter handler; a node with a parent entered on the
\* empty stack (the start of a traversal of a subtree) leaves its parent's
\* scope on the stack.  When the pass finishes the stack is empty for a
\* traversal started at a module root, and holds exactly the scope of the
\* start node's parent for one started at a node that has a parent.
C7_Amended ==
    /\ LastExited # 0 =>
          cur_sym_tab =
              IF pre[LastExited] = <<>> /\ Parent(LastExited) # 0
              THEN <<sym_tab[Parent(LastExited)]>>
              ELSE pre[LastExited]
    /\ ScopeBuildFinished =>
          cur_sym_tab =
              IF Parent(start) = 0 THEN <<>> ELSE <<sym_tab[Parent(start)]>>

\* A traversal started at a node with a parent has finished, after a nested
\* scope was opened and closed inside it, with the parent's scope left on the
\* stack.
C7_Witness ==
    /\ ScopeBuildFinished
    /\ Parent(start) # 0
    /\ LastExited = start
    /\ pre[start] = <<>>
    /\ cur_sym_tab = <<sym_tab[Parent(start)]>>
    /\ \E n \in Nodes :
          /\ n # start /\ InSubtree(n, start)
          /\ Kind(n) \in PushingKinds
          /\ Len(pre[n]) = 2

-----------------------------------------------------------------------------
ScopeBuildDone == pass \in {"between", "defuse", "done"}

Top(st) == st[Len(st)]

\* C8: after the scope-build pass, a node that is not scope-introducing is
\* attached to the scope of its innermost enclosing scope-introducing
\* ancestor; a scope-introducing node is attached to the scope it
\* introduced, which is a child of the scope on top of the stack when the
\* node was entered, or the root scope when the stack was empty and the node
\* has no parent.
C8_Attachment ==
    ScopeBuildDone =>
        \A n \in Nodes :
            IF Kind(n) \in PushingKinds
            THEN /\ sym_tab[n] # 0
                 /\ sym_tab[n] = OwnedLatest(n)
                 /\ pre[n] # <<>> => scopes[sym_tab[n]].parent = Top(pre[n])
                 /\ (pre[n] = <<>> /\ Parent(n) = 0)
                        => scopes[sym_tab[n]].parent = 0
            ELSE /\ sym_tab[n] # 0
                 /\ Enclosing(n, PushingKinds) # 0
                 /\ sym_tab[n] = OwnedLatest(Enclosing(n, PushingKinds))

\* A finished scope-build pass with a scope nested three deep, a plain node
\* attached to it that is not a kid of its owner, and the module attached to
\* the root scope.
C8_Witness ==
    /\ ScopeBuildDone
    /\ \E n \in Nodes :
          /\ Kind(n) \in PushingKinds
          /\ Len(pre[n]) >= 2
          /\ scopes[sym_tab[n]].parent = Top(pre[n])
          /\ \E m \in Nodes :
                /\ Kind(m) \notin PushingKinds
                /\ Parent(m) # n
                /\ sym_tab[m] = sym_tab[n]
    /\ scopes[sym_tab[Root]].parent = 0

-----------------------------------------------------------------------------
\* Module, type, method/function, enum, loop, conditional, try/except,
\* comprehension, lambda and match-arm nodes.
ListedScopeKinds ==
    {"Module", "Architype", "ArchDef", "Ability", "AbilityDef", "Enum",
     "EnumDef", "IterForStmt", "InForStmt", "WhileStmt", "IfStmt", "ElseIf",
     "ElseStmt", "TryStmt", "Except", "FinallyStmt", "ListCompr", "GenCompr",
     "SetCompr", "DictCompr", "InnerCompr", "LambdaExpr", "MatchCase"}

\* The node whose scope-build enter handler ran last, 0 if none.
LastEntered ==
    IF /\ last[1] = "symtab" /\ last[2] = "enter" /\ last[3] # 0
       /\ pass \notin {"crashed", "aborted"}
    THEN last[3] ELSE 0

\* C9 (as stated): every scope of the scope tree is owned by a module, type,
\* method/function, enum, loop, conditional, try/except, comprehension,
\* lambda or match-arm node; no other kind (a with-statement, a
\* typed-context block, a module-code block) has a scope of its own.
C9_Original ==
    \A S \in 1..Len(scopes) : Kind(scopes[S].owner) \in ListedScopeKinds

\* C9 (amended): every scope of the scope tree is owned by a module, test,
\* type, method/function, enum, loop, conditional, try/except, with-statement,
\* typed-context block, lambda, match-arm, dict-comprehension or
\* comprehension-clause node, and the enter handler of each such node leaves
\* the node's new scope on top of the stack; no other kind (a module-code
\* block, a list, set or generator comprehension) has a scope of its own.
C9_Amended ==
    /\ \A S \in 1..Len(scopes) : Kind(scopes[S].owner) \in PushingKinds
    /\ \A S \in 1..Len(scopes) :
          Kind(scopes[S].owner) \notin {"ModuleCode", "ListCompr", "GenCompr",
                                        "SetCompr"}
    /\ (LastEntered # 0 /\ Kind(LastEntered) \in PushingKinds) =>
          /\ cur_sym_tab # <<>>
          /\ scopes[Top(cur_sym_tab)].owner = LastEntered
          /\ Top(cur_sym_tab) = Len(scopes)
    /\ (LastEntered # 0 /\ Kind(LastEntered) \notin PushingKinds) =>
          cur_sym_tab = pre[LastEntered]

\* A finished scope-build pass over a module with a with-statement and a
\* typed-context block, each owning a scope, and a module-code block and a
\* list comprehension that own none.
C9_Witness ==
    /\ ScopeBuildDone
    /\ \E S \in 1..Len(scopes) : Kind(scopes[S].owner) = "WithStmt"
    /\ \E S \in 1..Len(scopes) : Kind(scopes[S].owner) = "TypedCtxBlock"
    /\ \E n \in Nodes : Kind(n) = "ModuleCode" /\ OwnedLatest(n) = 0
    /\ \E n \in Nodes : Kind(n) = "ListCompr" /\ OwnedLatest(n) = 0

-----------------------------------------------------------------------------
SitesIn(S, nm) ==
    IF own_entry(Heap, S, nm) = 0 THEN {}
    ELSE Range(syms[own_entry(Heap, S, nm)].defn)

SymbolsOf(d) == {i \in 1..Len(syms) : d \in Range(syms[i].defn)}

\* C10: the name of a type, enum or method/function is defined in the scope
\* enclosing the declaration and the declaration is no declaration site in
\* its own body scope; a parameter, and for a method the implicit self and
\* super, are defined in the body scope and not in the enclosing one; a
\* function that is not a method has no implicit self or super.
C10_DeclScopes ==
    /\ \A n \in Nodes :
          (Kind(n) \in {"Architype", "Enum", "Ability", "AbilityDef"}
           /\ OwnedLatest(n) # 0) =>
              LET own == OwnedLatest(n)
                  enc == scopes[own].parent
              IN  /\ enc # 0
                  /\ own_entry(Heap, enc, SymName(n)) # 0
                  /\ \A i \in SymbolsOf(n) : syms[i].tab = enc
                  /\ (Kind(n) = "Ability" /\ is_method(n)) =>
                        /\ SitesIn(own, "self") = {SelfStub(n)}
                        /\ SitesIn(own, "super") = {SuperStub(n)}
                        /\ SymbolsOf(SelfStub(n)) \cup SymbolsOf(SuperStub(n))
                              \subseteq {i \in 1..Len(syms) : syms[i].tab = own}
                  /\ (Kind(n) = "Ability" /\ ~is_method(n)) =>
                        /\ SitesIn(own, "self") = {}
                        /\ SitesIn(own, "super") = {}
                        /\ SymbolsOf(SelfStub(n)) = {}
                        /\ SymbolsOf(SuperStub(n)) = {}
    /\ \A p \in Nodes :
          (Kind(p) = "ParamVar" /\ Entered(p)) =>
              /\ p \in SitesIn(OwnedLatest(MethodOf(p)), SymName(p))
              /\ \A i \in SymbolsOf(p) :
                    syms[i].tab = OwnedLatest(MethodOf(p))

\* A finished run with a method that has a parameter and its implicit names
\* in its body scope, and a function with a parameter and no implicit names.
C10_Witness ==
    /\ pass = "done"
    /\ \E n, m \in Nodes :
          /\ Kind(n) = "Ability" /\ is_method(n)
          /\ Kind(m) = "Ability" /\ ~is_method(m)
          /\ SitesIn(OwnedLatest(n), "self") = {SelfStub(n)}
          /\ SitesIn(OwnedLatest(m), "self") = {}
          /\ n \in SitesIn(scopes[OwnedLatest(n)].parent, SymName(n))
          /\ m \in SitesIn(scopes[OwnedLatest(m)].parent, SymName(m))
          /\ \E p \in Nodes : Kind(p) = "ParamVar" /\ MethodOf(p) = m
                              /\ p \in SitesIn(OwnedLatest(m), SymName(p))
    /\ \E n \in Nodes, p \in Nodes :
          /\ Kind(n) = "Ability" /\ is_method(n)
          /\ Kind(p) = "ParamVar" /\ MethodOf(p) = n
          /\ p \in SitesIn(OwnedLatest(n), SymName(p))

-----------------------------------------------------------------------------
\* The test block a node lies in, 0 when it lies in none.
TestOf(u) ==
    LET ts == {t \in Nodes : Kind(t) = "Test" /\ InSubtree(u, t)}
    IN  IF ts = {} THEN 0 ELSE Max(ts)

\* C11: entering a test block opens a scope of its own, owned by the test and
\* a child of the scope that was open, and defines every assertion-helper
\* name in it and none of them in the enclosing scope; the test's scope is
\* popped on exit; after the def/use pass a use of a helper name inside the
\* test body is resolved to the test scope's symbol, and the enclosing scope
\* still has no entry for a helper name.
C11_TestScope ==
    /\ \A n \in Nodes :
          (Kind(n) = "Test" /\ LastEntered = n) =>
              LET S == sym_tab[n]
              IN  /\ S # 0
                  /\ scopes[S].owner = n
                  /\ scopes[S].parent = Top(pre[n])
                  /\ cur_sym_tab = Append(pre[n], S)
                  /\ \A k \in 1..Len(AssertHelpers) :
                        /\ own_entry(Heap, S, AssertHelpers[k]) # 0
                        /\ decl(Heap, own_entry(Heap, S, AssertHelpers[k]))
                              = HelperStub(n, k)
                        /\ own_entry(Heap, Top(pre[n]), AssertHelpers[k]) = 0
    /\ \A n \in Nodes :
          (Kind(n) = "Test" /\ LastExited = n) => cur_sym_tab = pre[n]
    /\ pass = "done" =>
          \A u \in Nodes :
              (PlainUse(u) /\ SymName(u) \in Range(AssertHelpers)
                  /\ TestOf(u) # 0) =>
                  /\ sym[u] # 0
                  /\ syms[sym[u]].tab = sym_tab[TestOf(u)]
                  /\ u \in Range(syms[sym[u]].uses)
                  /\ own_entry(Heap, scopes[sym_tab[TestOf(u)]].parent,
                               SymName(u)) = 0

\* A helper name used inside a test is resolved, the same kind of name used
\* outside of it is not.
C11_Witness ==
    /\ pass = "done"
    /\ \E u, w \in Nodes :
          /\ PlainUse(u) /\ SymName(u) \in Range(AssertHelpers)
          /\ PlainUse(w) /\ SymName(w) \in Range(AssertHelpers)
          /\ TestOf(u) # 0 /\ sym[u] # 0
          /\ TestOf(w) = 0 /\ sym[w] = 0

-----------------------------------------------------------------------------
\* The node lies lexically inside a walker-kind type.
UnderWalker(m) ==
    \E a \in Nodes :
        /\ Kind(a) = "Architype" /\ Role(a) = "walker"
        /\ m # a /\ InSubtree(m, a)

\* The node lies in a separately defined body of an ability declared in a
\* walker-kind type.
InLinkedBody(m) ==
    \E d \in Nodes :
        /\ Kind(d) = "AbilityDef" /\ T[d].x # 0
        /\ Kind(T[d].x) = "Ability" /\ UnderWalker(T[d].x)
        /\ m # d /\ InSubtree(m, d)

WalkerStmts ==
    {m \in Nodes :
        Kind(m) \in {"VisitStmt", "IgnoreStmt", "DisengageStmt", "EdgeOpRef"}}

\* C12: after the def/use pass a visit, ignore or disengage statement or an
\* edge reference is tagged as from_walker exactly when it lies inside a
\* walker-kind type or inside the separately defined body of an ability that
\* walker declares; nothing else is tagged.
C12_WalkerTagging ==
    pass = "done" =>
        /\ from_walker \subseteq WalkerStmts
        /\ \A m \in WalkerStmts :
              m \in from_walker <=> (UnderWalker(m) \/ InLinkedBody(m))

\* Tagged: a statement in a walker and one in its linked body; not tagged: a
\* statement in an object type, one in the linked body of an object's
\* ability, and one at module level.
C12_Witness ==
    /\ pass = "done"
    /\ \E a, b, c, d, e \in WalkerStmts :
          /\ UnderWalker(a) /\ a \in from_walker
          /\ InLinkedBody(b) /\ ~UnderWalker(b) /\ b \in from_walker
          /\ Enclosing(c, {"Architype"}) # 0 /\ ~UnderWalker(c)
          /\ c \notin from_walker
          /\ Enclosing(d, {"AbilityDef"}) # 0 /\ ~InLinkedBody(d)
          /\ d \notin from_walker
          /\ Enclosing(e, {"Architype", "AbilityDef"}) = 0
          /\ e \notin from_walker

-----------------------------------------------------------------------------
\* The names a delete statement flags: the name itself, the last segment of
\* a chain, and the same for each value of a tuple target.
FlaggedBy(t) ==
    IF Kind(t) = "AtomTrailer" THEN {Max(Kids(t))}
    ELSE IF Kind(t) = "Name" THEN {t}
    ELSE {}

DeleteTargets(n) ==
    LET t == Min({m \in Kids(n) : Role(m) = "target"})
        vals == {v \in Nodes : Parent(v) # 0 /\ Parent(Parent(v)) = t
                               /\ Role(Parent(v)) = "values"}
    IN  IF Kind(t) = "TupleVal" /\ vals # {}
        THEN UNION {FlaggedBy(v) : v \in vals}
        ELSE FlaggedBy(t)

AtDelete == pass = "defuse" /\ phase = "enter" /\ Kind(cur) = "DeleteStmt"

\* C13: every step of the two passes keeps every symbol in its scope with
\* every declaration site and use it had; the step of a delete statement
\* changes no scope and no symbol and adds exactly the target names (for a
\* chain the last segment) to the nodes flagged as deleted; no other step
\* changes the flags.  (A compilation that starts over on the formatted
\* text has tables of its own.)
C13_OnlyGrows ==
    [][pass # "formatted" =>
         /\ KeepsEntries
         /\ Len(scopes) <= Len(scopes')
         /\ AtDelete =>
              /\ syms' = syms
              /\ scopes' = scopes
              /\ sym' = sym
              /\ del_ctx' = del_ctx \cup DeleteTargets(cur)
         /\ ~AtDelete => del_ctx' = del_ctx]_vars

\* A name, the last segment of a chain and the values of a tuple are flagged
\* while their symbols are still in the table with their uses.
C13_Witness ==
    /\ pass = "done"
    /\ \E a, b, c \in del_ctx :
          /\ Kind(Parent(a)) = "DeleteStmt"
          /\ Kind(Parent(b)) = "AtomTrailer" /\ b = Max(Kids(Parent(b)))
          /\ Kind(Parent(c)) = "SubNodeList"
          /\ sym[a] # 0 /\ a \in Range(syms[sym[a]].uses)
          /\ sym[c] # 0
    /\ \A m \in del_ctx : Kind(Parent(m)) = "AtomTrailer" => m # Min(Kids(Parent(m)))

-----------------------------------------------------------------------------
\* The binding targets of a statement: the left-hand sides of an assignment,
\* the target of a loop or comprehension, the alias of a with item.
BindingTargets(n) ==
    IF Kind(n) = "Assignment"
    THEN {t \in Nodes : Parent(t) # 0 /\ Parent(Parent(t)) = n
                        /\ Role(Parent(t)) = "target"}
    ELSE IF Kind(n) \in {"InForStmt", "InnerCompr"}
    THEN {t \in Kids(n) : Role(t) = "target"}
    ELSE IF Kind(n) = "ExprAsItem"
    THEN {t \in Kids(n) : Role(t) = "alias"}
    ELSE {}

InvalidTargets(n) ==
    {t \in BindingTargets(n) : Kind(t) \notin {"Name", "AtomTrailer"}}

Count(seq, x) == Cardinality({k \in DOMAIN seq : seq[k] = x})

-----------------------------------------------------------------------------
IsWildcard(n) == Kind(n) = "Import" /\ Role(n) \in {"absorb", "absorb_py"}

IsJacWildcard(n) == Kind(n) = "Import" /\ Role(n) = "absorb"

\* The parsed module a wildcard import's source path resolved to, 0 if none.
AbsorbSource(n) ==
    LET items == {i \in Nodes : Parent(i) # 0 /\ Parent(Parent(i)) = n
                                /\ Role(Parent(i)) = "items"}
        mods == {m \in Nodes : Kind(m) = "Module" /\ Parent(m) = Min(items)}
    IN  IF items = {} \/ Kind(Min(items)) # "ModulePath" \/ mods = {} THEN 0
        ELSE Min(mods)

AtImportExit(n) == pass = "symtab" /\ phase = "exit" /\ cur = n

\* The exit step of an unresolved wildcard import reports ModuleNotFound,
\* changes no symbol and no scope, and the pass goes on.
ReportsNotFound ==
    /\ errors' = Append(errors, "ModuleNotFound")
    /\ syms' = syms
    /\ scopes' = scopes
    /\ pass' \notin {"crashed", "aborted"}

\* Every symbol of the source module's scope is found from the importing
\* scope.
Absorbed(n) ==
    \A i \in 1..Len(syms) :
        syms[i].tab = sym_tab[AbsorbSource(n)] =>
            lookup(Heap, sym_tab[n], syms[i].name) # 0

-----------------------------------------------------------------------------
\* A field node that is not nested under a has-declaration.
StrayField(n) ==
    /\ Kind(n) = "HasVar"
    /\ ~(/\ Parent(n) # 0 /\ Kind(Parent(n)) = "SubNodeList"
         /\ Parent(Parent(n)) # 0 /\ Kind(Parent(Parent(n))) = "ArchHas")

\* The targets of a global-variable statement, and those that are no names.
GlobalTargets(n) ==
    {t \in Nodes : /\ InSubtree(t, n) /\ Parent(t) # 0
                   /\ Role(Parent(t)) = "target"
                   /\ Kind(Parent(Parent(t))) = "Assignment"}

BadGlobals(n) == {t \in GlobalTargets(n) : Kind(t) # "Name"}

\* The next handler meets an internal-consistency error.
IceStep ==
    \/ pass = "defuse" /\ phase = "enter" /\ StrayField(cur)
    \/ /\ pass = "symtab" /\ phase = "exit"
       /\ \/ Kind(cur) = "GlobalVars" /\ BadGlobals(cur) # {}
          \/ Kind(cur) \in PushingKinds /\ cur_sym_tab = <<>>

\* C16: an internal-consistency error is fatal: the handler that meets a
\* field outside a has-declaration, a global-variable target that is no name,
\* or a pop on the empty scope stack stops the pass, and it inserts no symbol
\* for a target that follows the offending one.
C16_IceFatal ==
    [][IceStep =>
          /\ pass' \in {"aborted", "crashed"}
          /\ \A b \in BadGlobals(cur) : \A t \in GlobalTargets(cur) :
                (Kind(cur) = "GlobalVars" /\ t > b) => sym'[t] = 0]_vars

-----------------------------------------------------------------------------
\* The names bound by the binding forms other than an except clause:
\* assignment left-hand sides, loop and comprehension targets, with aliases
\* and import aliases.
BoundNames ==
    {t \in Nodes :
        /\ Kind(t) = "Name"
        /\ \/ \E n \in Nodes : t \in BindingTargets(n)
           \/ Kind(Parent(t)) = "ModulePath" /\ Role(t) = "alias"}

\* The names bound by except clauses.
ExceptNames ==
    {t \in Nodes : Kind(t) = "Name" /\ Kind(Parent(t)) = "Except"
                   /\ Role(t) = "name"}

\* The name has a symbol defined in the scope its node is attached to.
DefinedInOwnScope(t) ==
    /\ sym[t] # 0
    /\ t \in Range(syms[sym[t]].defn)
    /\ syms[sym[t]].tab = sym_tab[t]

\* C17: after the def/use pass each assignment left-hand side, loop target,
\* comprehension target, exception-binding name, with alias and import alias
\* has a symbol defined in the scope its node is attached to, and a use of an
\* exception-binding name inside its except block resolves to that symbol.
C17_BindingForms ==
    pass = "done" =>
        /\ \A t \in BoundNames \cup ExceptNames : DefinedInOwnScope(t)
        /\ \A t \in ExceptNames : \A u \in Nodes :
              (PlainUse(u) /\ u # t /\ InSubtree(u, Parent(t))
                 /\ SymName(u) = SymName(t)) => sym[u] = sym[t]

-----------------------------------------------------------------------------
\* The scope is the other scope or one of its ancestors.
RECURSIVE IsAncestorOrSelf(_, _)
IsAncestorOrSelf(A, S) ==
    IF S = 0 THEN FALSE
    ELSE IF S = A THEN TRUE
    ELSE IsAncestorOrSelf(A, scopes[S].parent)

\* The scopes a lookup started in one of the scopes F can reach: the scopes
\* themselves, their ancestors, and the scopes linked to any of those as an
\* inherited base or an absorbed module.
RECURSIVE Reach(_)
Reach(F) ==
    LET more == F \cup ({scopes[S].parent : S \in F} \ {0})
                  \cup UNION {Range(scopes[S].inherit) : S \in F}
    IN  IF more = F THEN F ELSE Reach(more)

\* The scope the resolution of a recorded use starts in: the scope of the
\* node for a name on its own or at the head of a chain, the scope exposed
\* by the declaration of the previous segment for a later segment of a chain.
StartScope(u) ==
    IF Parent(u) = 0 \/ Kind(Parent(u)) # "AtomTrailer"
       \/ u = Min(Kids(Parent(u)))
    THEN sym_tab[u]
    ELSE LET t == Min(Kids(Parent(u)))
             prev == IF Kind(t) = "AtomTrailer" THEN Max(Kids(t)) ELSE t
         IN  SegmentScope(prev)

\* C18 (as stated): in the finished symbol table the scope every symbol is
\* declared in is the scope of, or an ancestor of the scope of, every one of
\* the symbol's recorded uses.
C18_Original ==
    pass = "done" =>
        \A i \in 1..Len(syms) :
            \E d \in Range(syms[i].defn) :
                \A u \in Range(syms[i].uses) :
                    IsAncestorOrSelf(syms[i].tab, sym_tab[u])

\* C18 (amended): in the finished symbol table every symbol has a declaration
\* site, and the scope it is declared in is reachable from the scope the
\* resolution of each of its recorded uses starts in, through parent links
\* and through the links to inherited bases and absorbed modules.
C18_Amended ==
    pass = "done" =>
        \A i \in 1..Len(syms) :
            /\ syms[i].defn # <<>>
            /\ \A u \in Range(syms[i].uses) :
                  /\ StartScope(u) # 0
                  /\ syms[i].tab \in Reach({StartScope(u)})

\* A finished table with a use resolved to a symbol of a scope that is no
\* ancestor of the use's scope, and a use resolved to a symbol of an
\* ancestor scope.
C18_Witness ==
    /\ pass = "done"
    /\ \E i, j \in 1..Len(syms) :
          /\ \E u \in Range(syms[i].uses) :
                /\ ~IsAncestorOrSelf(syms[i].tab, sym_tab[u])
                /\ syms[i].tab \in Reach({StartScope(u)})
          /\ \E u \in Range(syms[j].uses) :
                /\ syms[j].tab # sym_tab[u]
                /\ IsAncestorOrSelf(syms[j].tab, sym_tab[u])

-----------------------------------------------------------------------------
(* C19: later passes only enrich what earlier passes built.                 *)

\* No scope is created or removed, and no scope changes its name, its owner
\* or its parent.
ScopesKept ==
    /\ Len(scopes') = Len(scopes)
    /\ \A i \in 1..Len(scopes) :
          /\ scopes'[i].name = scopes[i].name
          /\ scopes'[i].owner = scopes[i].owner
          /\ scopes'[i].parent = scopes[i].parent

\* A step of the formatter: its before_pass or one of its handlers.
FormatStep == pass = "format" \/ (pass = "done" /\ pass' = "format")

\* C19 (as stated): a step of the def/use pass creates, removes and
\* re-parents no scope and changes no node's attached scope; a step of the
\* formatter changes no scope, symbol, declaration site or use, and writes
\* nothing but generated-text slots and its indent counter.
C19_Original ==
    [][/\ pass = "defuse" => ScopesKept /\ UNCHANGED sym_tab
       /\ FormatStep =>
             /\ UNCHANGED <<scopes, syms, sym, sym_tab>>
             /\ UNCHANGED <<ir, errors, comments, from_walker, del_ctx,
                            cur_sym_tab>>]_vars

\* C19 (amended): a step of the def/use pass creates, removes and re-parents
\* no scope and changes no node's attached scope; a step of the formatter
\* changes no scope, symbol, declaration site or use, and writes nothing but
\* generated-text slots, its indent counter, its list of the source's
\* comments, and the diagnostics list, which it only appends to.
C19_Amended ==
    [][/\ pass = "defuse" => ScopesKept /\ UNCHANGED sym_tab
       /\ FormatStep =>
             /\ UNCHANGED <<scopes, syms, sym, sym_tab>>
             /\ UNCHANGED <<ir, from_walker, del_ctx, cur_sym_tab>>
             /\ IsPrefix(errors, errors')]_vars

\* The formatter has run over a whole module whose scopes the earlier passes
\* built: it has written text, taken the source's comments and reported an
\* operator it does not print.
C19_Witness ==
    /\ pass = "formatted"
    /\ start = Root
    /\ Len(scopes) > 1
    /\ \E n \in Nodes : sym_tab[n] > 1 /\ gen[n] # <<>>
    /\ comments # {}
    /\ errors # <<>>

-----------------------------------------------------------------------------
(* C20: the formatter is total.                                             *)

\* The formatter's handler that ran last raised.
FormatRaised == last[1] = "format" /\ pass \in {"aborted", "crashed"}

\* The node whose formatter exit handler has just returned, 0 when the last
\* step was none.
FormatExited ==
    IF last[1] = "format" /\ last[2] = "exit" /\ ~FormatRaised
    THEN last[3] ELSE 0

\* C20: whether the formatter is started at the module or at a subtree, no
\* handler of it raises, and when the exit handler of a node returns the
\* node's generated-text slot holds a non-empty text.
C20_Total ==
    /\ ~FormatRaised
    /\ FormatExited # 0 => gen[FormatExited] # <<>>

-----------------------------------------------------------------------------
(* C23: in one run of the def/use pass every name is resolved at most once. *)

\* How often node d is recorded as a use, over all symbols.
UseCount(d) ==
    LET occ == {<<i, k>> \in (1..Len(syms)) \X (1..Len(ir)) :
                   k <= Len(syms[i].uses) /\ syms[i].uses[k] = d}
    IN  Cardinality(occ)

\* The names that start an attribute chain, a nested chain a.b.c included.
ChainBases ==
    {d \in Nodes :
        /\ Kind(d) = "Name"
        /\ Parent(d) # 0 /\ Kind(Parent(d)) = "AtomTrailer"
        /\ d = as_attr_list(Parent(d))[1]}

\* The plain names that are targets of an assignment.
TargetNames ==
    {t \in Nodes :
        /\ Kind(t) = "Name"
        /\ Parent(t) # 0 /\ Role(Parent(t)) = "target"
        /\ Parent(Parent(t)) # 0 /\ Kind(Parent(Parent(t))) = "Assignment"}

\* C23: when the def/use pass has run, no name is recorded as a use more than
\* once, the base of every chain that resolved is recorded as a use exactly
\* once, and a name that is an assignment target is no use of the symbol it
\* is a declaration site of.
C23_ResolvedOnce ==
    pass = "done" =>
        /\ \A d \in Nodes : Kind(d) = "Name" => UseCount(d) <= 1
        /\ \A d \in ChainBases : sym[d] # 0 => UseCount(d) = 1
        /\ \A t \in TargetNames :
              \A i \in 1..Len(syms) :
                  t \in Range(syms[i].defn) => t \notin Range(syms[i].uses)

-----------------------------------------------------------------------------
(* C21: blank lines between top-level declarations.                         *)

\* Module.body: the top-level declarations, in source order.
TopLevel == seq_of({m \in Kids(Root) : ~IsTokenNode(m)})

\* The blank source lines between the k-th declaration and the one before.
BlankSourceLines(k) == T[TopLevel[k]].l1 - T[TopLevel[k - 1]].l2 - 1

\* The texts of the declarations from the k-th on, each ended by a line
\* break, with blanks[j] blank lines before the j-th.
RECURSIVE Joined(_, _)
Joined(blanks, k) ==
    IF k > Len(TopLevel) THEN <<>>
    ELSE [j \in 1..blanks[k] |-> "\n"] \o strip(gen[TopLevel[k]]) \o <<"\n">>
         \o Joined(blanks, k + 1)

\* C21: the text of a formatted module is the texts of its top-level
\* declarations with no or one blank line between two consecutive ones, and
\* with one where the source had more than one blank line between them,
\* whatever the text of the first of the two ends with.
C21_BlankLines ==
    (pass = "formatted" /\ start = Root) =>
        \E blanks \in [1..Len(TopLevel) -> {0, 1}] :
            /\ gen[Root] = Joined(blanks, 1)
            /\ \A k \in 2..Len(TopLevel) :
                  BlankSourceLines(k) > 1 => blanks[k] = 1

-----------------------------------------------------------------------------
(* C22: the formatter's output is a fixed point of format-after-parse.      *)

\* C22: when the tree being formatted was parsed from text the formatter had
\* produced, formatting it gives that text again.
C22_FixedPoint ==
    (pass = "formatted" /\ start = Root /\ parsed_from # <<>>) =>
        gen[Root] = parsed_from

-----------------------------------------------------------------------------
(* C24: a generated-text slot is written by its own node's exit only.       *)

\* C24: a step of the formatter changes no slot but that of the node whose
\* exit handler it runs (so a slot is final once its node's exit handler has
\* returned, and no handler writes the slot of a kid).
C24_OwnSlotOnly ==
    [][FormatStep =>
         \A n \in Nodes :
             gen'[n] # gen[n] => (n = cur /\ phase = "exit")]_vars

-----------------------------------------------------------------------------
(* C25: the indent level is balanced.                                       *)

\* A formatter step in which a handler runs and returns.
HandlerReturns == pass = "format" /\ pass' \in {"format", "formatted"}

\* C25: the indent level is never negative when a handler of the formatter
\* is entered, every handler returns with the level it was entered with,
\* and so the level is 0 when the pass finishes.
C25_Balanced ==
    [][HandlerReturns =>
         /\ indent_level >= 0
         /\ indent_level' = indent_level]_vars


-----------------------------------------------------------------------------
(* C26: the change set of _get_action_change.                               *)

\* The change set a call of _get_action_change returned, the desired states
\* it was called with and the modes the actions had.
ChangeSet == returned.ret
Desired == returned.new_action_state
DesiredMode(i) == IF Desired[i][2] = "local" THEN "module" ELSE Desired[i][2]
ModeBefore(name) == returned.before[name]
DesiredOf(name) ==
    DesiredMode(CHOOSE i \in 1..Len(Desired) : Desired[i][1] = name)

\* The change set holds exactly the configured actions whose desired mode
\* differs from their mode, each once.
ExactlyTheChanged ==
    /\ {ChangeSet[i][1] : i \in 1..Len(ChangeSet)} =
           {Desired[i][1] : i \in
               {i \in 1..Len(Desired) :
                   /\ Desired[i][1] \in ActionConfigs
                   /\ DesiredMode(i) # ModeBefore(Desired[i][1])}}
    /\ \A i, j \in 1..Len(ChangeSet) :
           ChangeSet[i][1] = ChangeSet[j][1] => i = j

\* Every switch from module to remote comes before every change that is not
\* a switch to remote.
ModuleToRemoteFirst ==
    \A i, j \in 1..Len(ChangeSet) :
        (/\ ModeBefore(ChangeSet[i][1]) = "module"
         /\ DesiredOf(ChangeSet[i][1]) = "remote"
         /\ DesiredOf(ChangeSet[j][1]) # "remote") => i < j

\* C26: _get_action_change returns exactly the actions whose desired mode
\* differs from their current mode ("local" being "module", names that are
\* not configured ignored), every module-to-remote switch before every
\* change that is not a switch to remote.
C26_ChangeSet ==
    returned.op = "_get_action_change" =>
        ExactlyTheChanged /\ ModuleToRemoteFirst


-----------------------------------------------------------------------------
(* C30: what load_action_remote returns.                                    *)

\* The call of load_action_remote that just returned: the action, its state
\* before the call and its state now.
RemoteCall == returned.op = "load_action_remote"
StateBefore == returned.before
StateAfter == actions_state[returned.name]

\* Within one call the status stays, or moves forward from not started to
\* STARTING to READY.
StatusMoves ==
    {<<st, st>> : st \in {"None", "STARTING", "READY"}} \cup
    {<<"None", "STARTING">>, <<"STARTING", "READY">>, <<"None", "READY">>}

-----------------------------------------------------------------------------
(* C29: what apply_actions_change removes and what it leaves loaded.        *)

\* The change types apply_actions_change has a branch for, and the mode a
\* change type switches to.
RecognisedChanges ==
    {"to_local", "_to_local", "_to_module", "to_module", "to_remote",
     "local_to_remote", "module_to_remote", "remote_to_local",
     "remote_to_module"}
TargetMode(change_type) ==
    IF Contains(change_type, "to_remote") THEN "remote" ELSE "module"
SourceMode(change_type) ==
    IF change_type \in {"local_to_remote", "module_to_remote"} THEN "module"
    ELSE IF change_type \in {"remote_to_local", "remote_to_module"}
    THEN "remote"
    ELSE "None"

\* The entry is a switch: the action of a name that apply_actions_change
\* finds in the mode the change type starts from.
Switch(name, change_type) ==
    /\ name \in DOMAIN applied.before
    /\ applied.before[name] = SourceMode(change_type)

\* The action is loaded in the given mode and in no other.
LoadedOnlyAs(name, mode) ==
    /\ actions_state[name].mode = mode
    /\ live_actions[name].module <=> mode = "module"
    /\ live_actions[name].remote <=> mode = "remote"

\* The entries of the call's copy of actions_change whose load failed.
NotLoaded(item) == item[1] \notin applied.loaded

\* C29: apply_actions_change removes from actions_change exactly the
\* entries whose load succeeded and keeps the others as they were; it never
\* removes an entry of an unrecognised change type; and after a successful
\* switch the action is loaded in the target mode only.
C29_ApplyChanges ==
    applied.applied =>
        /\ actions_change = SelectSeq(applied.changes, NotLoaded)
        /\ \A i \in 1..Len(applied.changes) :
               LET name == applied.changes[i][1]
                   change_type == applied.changes[i][2]
               IN  /\ change_type \notin RecognisedChanges =>
                          name \notin applied.loaded
                   /\ (name \in applied.loaded /\ Switch(name, change_type))
                          => LoadedOnlyAs(name, TargetMode(change_type))


-----------------------------------------------------------------------------
(* C27: the Evaluation policy leaves eval_switching.                        *)

\* The Evaluation policy is switching configurations, and every pending
\* change can be loaded: a module that can be imported, or a remote service
\* (which comes up once it is spawned).
Loadable(item) == TargetMode(item[2]) = "module" => modules[item[1]]
Switching ==
    /\ policy = "Evaluation"
    /\ policy_state.phase = "eval_switching"
    /\ \A i \in 1..Len(actions_change) : Loadable(actions_change[i])

\* The pending changes are applied and the policy evaluates the
\* configuration; or the policy was set anew.
Evaluating ==
    /\ policy = "Evaluation"
    /\ policy_state.phase = "eval"
    /\ actions_change = <<>>
    /\ policy_state.cur_phase = 0
    /\ benchmark.active
PolicySet == policy # "Evaluation" \/ policy_state = NoPolicyState

\* C27: under the Evaluation policy, when the policy is in eval_switching
\* and the pending changes become loadable, the calls of run eventually
\* apply them, empty actions_change and return the policy to the eval phase
\* with cur_phase 0 and the benchmark active.
C27_LeavesSwitching == Switching ~> (Evaluating \/ PolicySet)


-----------------------------------------------------------------------------
(* C28: the Auto policy between evaluation and performance.                 *)

\* The Auto policy evaluates its last configuration, walkers have run and
\* the evaluation period is over at the next call of run.
LastEvaluated ==
    /\ policy = "Auto"
    /\ policy_state.phase = "eval"
    /\ policy_state.cur_config # <<>>
    /\ policy_state.remain_configs = <<>>
    /\ benchmark.requests # <<>>
    /\ policy_state.cur_phase + JsorcInterval >= EvalPhase

\* A call of run in the performance phase has just returned, and its
\* _check_phase_change reported a change.
ChangeReported ==
    /\ policy = "Auto"
    /\ policy_state.phase = "pref"
    /\ RunCalled
    /\ returned.changed

\* The policy evaluates configurations again; or the policy was set anew.
EvaluatesAgain == policy = "Auto" /\ policy_state.phase = "eval"
AutoSet == policy # "Auto" \/ policy_state = NoPolicyState

\* After all configurations have been evaluated the policy enters the
\* performance phase.
EntersPerformance ==
    [][(LastEvaluated /\ returned'.op = "run") =>
           policy_state'.phase = "pref"]_vars

\* C28: under the Auto policy, after all configurations have been
\* evaluated the policy enters the performance phase, and whenever
\* _check_phase_change then reports a change the policy goes back to the
\* evaluation phase and evaluates configurations again.
C28_BackToEval ==
    /\ EntersPerformance
    /\ ChangeReported ~> (EvaluatesAgain \/ AutoSet)

=============================================================================
